---- MODULE Spec2Model ----
(***************************************************************************)
(* Session discovery and enrichment pipeline of opencode-dashboard:        *)
(* the TTL/capacity cache (createCache), the enrichers and                 *)
(* discoverSessions, modelled from src/src/opencode/enrichment.js and      *)
(* src/src/opencode/sessions.js.                                           *)
(*                                                                         *)
(* Time is in milliseconds, as Date.now() returns it.  JavaScript values   *)
(* whose type matters are tagged records (Str, Num, Null, Undefined).      *)
(***************************************************************************)
EXTENDS Integers, Sequences, FiniteSets, TLC

VARIABLES
    now,        \* the value Date.now() returns
    cache,      \* the Map inside createCache, as the sequence of its entries in Map iteration order
    insOrder,   \* history: the stored keys in the order they entered the store
    accOrder,   \* history: the stored keys in the order of their last access (set, or get that hit)
    storage,    \* the storage tree on disk: [session, message, part]
    prev,       \* history: the latest discoverSessions call, while nothing but time has passed since
    calls,      \* the calls in flight, each waiting for the file system: one per caller
    last        \* history: the operation that produced the current state, its arguments, result and pre-state

vars == <<now, cache, insOrder, accOrder, storage, prev, calls, last>>

----------------------------------------------------------------------------
(* Bounds of the model *)

\* createCache(ttlMs, maxSize): the arguments the modelled cache is constructed with
ttlMs == 60000
maxSize == 2
\* the clock advances in steps of ClockStep up to MaxNow
ClockStep == 30000
MaxNow == 90000
\* the thresholds discoverSessions is called with
BusyMinutes == 1
StaleMinutes == 2
Thresholds == [busyMinutes |-> BusyMinutes, staleMinutes |-> StaleMinutes]

\* the divisor of ageMinutes
MsPerMinute == 60000

----------------------------------------------------------------------------
(* JavaScript values *)

Undefined == [t |-> "undefined"]
Null == [t |-> "null"]
Str(s) == [t |-> "string", s |-> s]
Num(n) == [t |-> "number", n |-> n]

\* ToBoolean
Truthy(v) ==
    CASE v.t = "string" -> v.s # ""
      [] v.t = "number" -> v.n # 0
      [] v.t = "undefined" -> FALSE
      [] v.t = "null" -> FALSE
      [] OTHER -> TRUE

\* a || b
JsOr(a, b) == IF Truthy(a) THEN a ELSE b

Digit(d) == SubSeq("0123456789", d + 1, d + 1)

RECURSIVE NatToString(_)
NatToString(n) == IF n < 10 THEN Digit(n) ELSE NatToString(n \div 10) \o Digit(n % 10)

\* Number.prototype.toString for the integers the model uses
NumberToString(n) == IF n < 0 THEN "-" \o NatToString(0 - n) ELSE NatToString(n)

\* the string a template literal `${v}` produces
TemplateString(v) ==
    CASE v.t = "string" -> v.s
      [] v.t = "number" -> NumberToString(v.n)
      [] v.t = "null" -> "null"
      [] OTHER -> "undefined"

\* the value of an expression, computed once: S is the singleton holding it
The(S) == CHOOSE x \in S : TRUE

----------------------------------------------------------------------------
(* Strings: the String.prototype methods and regular expressions the code uses *)

\* s.substring(i - 1, j): the characters at the 1-based positions i..j that exist
Substr(s, i, j) ==
    LET a == IF i < 1 THEN 1 ELSE i
        b == IF j > Len(s) THEN Len(s) ELSE j
    IN IF a > b THEN "" ELSE SubSeq(s, a, b)

CharAt(s, i) == Substr(s, i, i)

Upper == "ABCDEFGHIJKLMNOPQRSTUVWXYZ"
Lower == "abcdefghijklmnopqrstuvwxyz"
Digits == "0123456789"

\* the printable ASCII characters in code-unit order: 32..95 and 97..126
AsciiLow == " !\"#$%&'()*+,-./0123456789:;<=>?@ABCDEFGHIJKLMNOPQRSTUVWXYZ[\\]^_"
AsciiHigh == "abcdefghijklmnopqrstuvwxyz{|}~"

InString(c, set) == \E i \in 1..Len(set) : CharAt(set, i) = c

PosIn(c, set) == CHOOSE i \in 1..Len(set) : CharAt(set, i) = c

\* the UTF-16 code unit of a character
CharCode(c) ==
    IF c = "\t" THEN 9
    ELSE IF c = "\n" THEN 10
    ELSE IF c = "\r" THEN 13
    ELSE IF InString(c, AsciiLow) THEN PosIn(c, AsciiLow) + 31
    ELSE PosIn(c, AsciiHigh) + 96

\* \s, \w and \d of a regular expression
IsSpace(c) == c \in {" ", "\t", "\n", "\r"}
IsWord(c) == InString(c, Upper) \/ InString(c, Lower) \/ InString(c, Digits) \/ c = "_"
IsDigit(c) == InString(c, Digits)

LowerChar(c) == IF InString(c, Upper) THEN CharAt(Lower, PosIn(c, Upper)) ELSE c

\* (the recursions over a string halve it, to keep the evaluation shallow)
RECURSIVE ToLowerCase(_)
ToLowerCase(s) ==
    IF Len(s) <= 1 THEN LowerChar(s)
    ELSE ToLowerCase(Substr(s, 1, Len(s) \div 2)) \o ToLowerCase(Substr(s, Len(s) \div 2 + 1, Len(s)))

TrimStart(s) ==
    Substr(s, (CHOOSE j \in 0..Len(s) :
                  /\ \A x \in 1..j : IsSpace(CharAt(s, x))
                  /\ j < Len(s) => ~IsSpace(CharAt(s, j + 1))) + 1, Len(s))

TrimEnd(s) ==
    Substr(s, 1, (CHOOSE j \in 1..(Len(s) + 1) :
                     /\ \A x \in j..Len(s) : IsSpace(CharAt(s, x))
                     /\ j > 1 => ~IsSpace(CharAt(s, j - 1))) - 1)

Trim(s) == TrimEnd(TrimStart(s))

StartsWith(s, p) == Len(s) >= Len(p) /\ SubSeq(s, 1, Len(p)) = p

EndsWith(s, p) == Len(s) >= Len(p) /\ SubSeq(s, Len(s) - Len(p) + 1, Len(s)) = p

\* whether sub occurs in s at (1-based) position i
OccursAt(s, sub, i) == i + Len(sub) - 1 <= Len(s) /\ SubSeq(s, i, i + Len(sub) - 1) = sub

Includes(s, sub) == \E i \in 1..(Len(s) + 1) : OccursAt(s, sub, i)

\* a < b in the order Array.prototype.sort() uses for strings
StringLess(a, b) ==
    \/ Len(a) < Len(b) /\ Substr(b, 1, Len(a)) = a
    \/ \E i \in 1..Len(a) :
          /\ i <= Len(b)
          /\ Substr(a, 1, i - 1) = Substr(b, 1, i - 1)
          /\ CharAt(a, i) # CharAt(b, i)
          /\ CharCode(CharAt(a, i)) < CharCode(CharAt(b, i))

\* the end of the longest run of characters satisfying Test(_) that starts at i
\* (i - 1 when the run is empty)
RunEnd(s, i, Test(_)) ==
    CHOOSE j \in (i - 1)..Len(s) :
        /\ \A x \in i..j : Test(CharAt(s, x))
        /\ j < Len(s) => ~Test(CharAt(s, j + 1))

\* what s.replace(/\s+/g, ' ') leaves of the character at position i: a run of
\* whitespace becomes one space, at its first position
Collapsed(s, i) ==
    IF ~IsSpace(CharAt(s, i)) THEN CharAt(s, i)
    ELSE IF i > 1 /\ IsSpace(CharAt(s, i - 1)) THEN ""
    ELSE " "

RECURSIVE CollapseRange(_, _, _)
CollapseRange(s, lo, hi) ==
    IF lo > hi THEN ""
    ELSE IF lo = hi THEN Collapsed(s, lo)
    ELSE CollapseRange(s, lo, (lo + hi) \div 2) \o CollapseRange(s, (lo + hi) \div 2 + 1, hi)

\* s.replace(/\s+/g, ' ')
CollapseSpaces(s) == CollapseRange(s, 1, Len(s))

\* s.lastIndexOf(' '), 0-based as in JavaScript, -1 when there is none
LastIndexOfSpace(s) ==
    IF \E i \in 1..Len(s) : CharAt(s, i) = " "
    THEN (CHOOSE i \in 1..Len(s) :
            CharAt(s, i) = " " /\ \A j \in (i + 1)..Len(s) : CharAt(s, j) # " ") - 1
    ELSE 0 - 1

----------------------------------------------------------------------------
(* createCache: the store is a Map; a Map iterates in insertion order, and  *)
(* Map.set on a present key keeps the key's position.                      *)

SeqKeys(c) == {c[i].key : i \in 1..Len(c)}

KeyIndex(c, k) == CHOOSE i \in 1..Len(c) : c[i].key = k

\* Map.prototype.get: the entry, or Undefined
MapGet(c, k) == IF k \in SeqKeys(c) THEN c[KeyIndex(c, k)] ELSE Undefined

\* Map.prototype.delete
MapDelete(c, k) == SelectSeq(c, LAMBDA e : e.key # k)

\* Map.prototype.set
MapSet(c, k, e) ==
    IF k \in SeqKeys(c)
    THEN [c EXCEPT ![KeyIndex(c, k)] = e]
    ELSE Append(c, e)

\* variant: an entry expires as soon as its age reaches the time-to-live
Expired_AtTtl(e, t) == t - e.timestamp >= ttlMs

\* entry.timestamp is older than the time-to-live at time t
Expired(e, t) == t - e.timestamp > ttlMs

\* variant: an entry is served however old it is
CacheGetResult_NoExpiry(c, k, t) ==
    IF k \notin SeqKeys(c) THEN Undefined ELSE MapGet(c, k).value

\* cache.get(key): the returned value
CacheGetResult(c, k, t) ==
    IF k \notin SeqKeys(c) THEN Undefined
    ELSE IF Expired(MapGet(c, k), t) THEN Undefined
    ELSE MapGet(c, k).value

\* variant: every get sweeps all expired entries out of the store
CacheGetStore_SweepExpired(c, k, t) == SelectSeq(c, LAMBDA e : ~Expired(e, t))

\* variant: a read that hits moves the entry to the end of the Map (true LRU)
CacheGetStore_TouchOnRead(c, k, t) ==
    IF k \notin SeqKeys(c) THEN c
    ELSE IF t - MapGet(c, k).timestamp > ttlMs THEN MapDelete(c, k)
    ELSE Append(MapDelete(c, k), MapGet(c, k))

\* cache.get(key): the store afterwards
CacheGetStore(c, k, t) ==
    IF k \in SeqKeys(c) /\ Expired(MapGet(c, k), t) THEN MapDelete(c, k) ELSE c

\* variant: evicts only once the store is over capacity
CacheEvict_OverCapacity(c) == IF Len(c) > maxSize THEN MapDelete(c, c[1].key) ELSE c

\* cache.set(key, value), first half: "delete oldest if at capacity"
CacheEvict(c) == IF Len(c) >= maxSize THEN MapDelete(c, c[1].key) ELSE c

\* cache.set(key, value): the store afterwards
CacheSetStore(c, k, v, t) ==
    MapSet(CacheEvict(c), k, [key |-> k, value |-> v, timestamp |-> t])

\* cache.size()
CacheSize(c) == Len(c)

\* history of insertions: a key leaves the order when it leaves the store and
\* joins its end when Map.set finds it absent
InsAfterRemoval(ins, c2) == SelectSeq(ins, LAMBDA k : k \in SeqKeys(c2))

InsAfterSet(ins, c, k) ==
    LET kept == InsAfterRemoval(ins, CacheEvict(c))
    IN IF k \in SeqKeys(CacheEvict(c)) THEN kept ELSE Append(kept, k)

\* history of accesses: the touched key moves to the end
AccAfter(acc, c2, k, touched) ==
    LET kept == SelectSeq(acc, LAMBDA x : x \in SeqKeys(c2) /\ ~(touched /\ x = k))
    IN IF touched /\ k \in SeqKeys(c2) THEN Append(kept, k) ELSE kept

----------------------------------------------------------------------------
(* The storage tree, as readdir and readFile see it.                       *)
(* A directory is [ok, entries]: ok is FALSE when readdir fails (missing    *)
(* or unreadable), entries is the listing in the order readdir returns it. *)
(* A file's content is [kind, json]: kind "unreadable" (readFile fails),   *)
(* "invalid" (JSON.parse throws) or "json" with the parsed value.          *)

MissingDir == [ok |-> FALSE, entries |-> <<>>]
Dir(entries) == [ok |-> TRUE, entries |-> entries]
File(name, content) == [name |-> name, content |-> content]
Unreadable == [kind |-> "unreadable", json |-> Undefined]
InvalidJson == [kind |-> "invalid", json |-> Undefined]
Json(v) == [kind |-> "json", json |-> v]

\* <storageRoot>/message/<id> and <storageRoot>/part/<id>
MessageDir(st, id) == IF id \in DOMAIN st.message THEN st.message[id] ELSE MissingDir
PartDir(st, id) == IF id \in DOMAIN st.part THEN st.part[id] ELSE MissingDir

\* files.filter(f => f.startsWith(prefix) && f.endsWith('.json'))
MatchesPattern(name, prefix) == StartsWith(name, prefix) /\ EndsWith(name, ".json")

\* Array.prototype.sort() on strings: insertion of one name into a sorted sequence
RECURSIVE InsertString(_, _)
InsertString(sorted, x) ==
    IF sorted = <<>> THEN <<x>>
    ELSE IF StringLess(x, Head(sorted)) THEN <<x>> \o sorted
    ELSE <<Head(sorted)>> \o InsertString(Tail(sorted), x)

\* variant: the names stay in the order readdir returned them
SortStrings_ListingOrder(names) == names

RECURSIVE SortStrings(_)
SortStrings(names) ==
    IF names = <<>> THEN <<>>
    ELSE InsertString(SortStrings(SubSeq(names, 1, Len(names) - 1)), names[Len(names)])

\* the entry of a listing with the given name
FileNamed(entries, name) == entries[CHOOSE i \in 1..Len(entries) : entries[i].name = name]

\* value.toString() of the values an agent field holds
JsToString(v) ==
    CASE v.t = "string" -> v.s
      [] v.t = "number" -> NumberToString(v.n)
      [] OTHER -> "[object Object]"

\* obj.field of a parsed JSON value: undefined on anything but an object
\* (the callers below never read a property of null without a guard of their own)
IsObject(v) == v.t = "object"

General == Str("general")

\* detectAgent(sessionID, storagePath)
DetectAgent(sessionID, st) ==
    IF sessionID.t # "string" THEN General          \* join() throws on a non-string
    ELSE
    LET dir == MessageDir(st, sessionID.s)
        names == [i \in 1..Len(dir.entries) |-> dir.entries[i].name]
        messageFiles == SortStrings(SelectSeq(names, LAMBDA f : MatchesPattern(f, "msg_")))
    IN IF ~dir.ok THEN General
       ELSE IF Len(messageFiles) = 0 THEN General
       ELSE LET content == FileNamed(dir.entries, messageFiles[1]).content
                message == content.json
                agent == IF IsObject(message) THEN JsOr(message.agent, General) ELSE General
            IN IF content.kind # "json" THEN General
               ELSE IF message.t = "null" THEN General    \* null.agent throws
               ELSE Str(Trim(ToLowerCase(JsToString(agent))))

\* the terminators of a sentence: [.!?]
IsTerminator(c) == c \in {".", "!", "?"}
NotTerminator(c) == ~IsTerminator(c)

\* s.match(/^[^.!?]+[.!?]/): the matched text, or "" when there is no match
FirstSentenceMatch(s) ==
    LET e == RunEnd(s, 1, NotTerminator)
    IN IF e >= 1 /\ e < Len(s) THEN Substr(s, 1, e + 1) ELSE ""

\* variant: the cut goes back to the last space wherever it lies
ExtractFirstSentenceOrTruncate_AnyWordBoundary(text, maxLength) ==
    IF text.t # "string" \/ text.s = "" THEN ""
    ELSE
    LET cleaned == Trim(CollapseSpaces(text.s))
        sentence == Trim(FirstSentenceMatch(cleaned))
        truncated == Substr(cleaned, 1, maxLength)
        lastSpace == LastIndexOfSpace(truncated)
    IN IF cleaned = "" THEN ""
       ELSE IF FirstSentenceMatch(cleaned) # "" /\ Len(sentence) <= maxLength THEN sentence
       ELSE IF Len(cleaned) <= maxLength THEN cleaned
       ELSE IF lastSpace > 0
            THEN Substr(truncated, 1, lastSpace) \o "..."
            ELSE truncated \o "..."

\* extractFirstSentenceOrTruncate(text, maxLength)
ExtractFirstSentenceOrTruncate(text, maxLength) ==
    IF text.t # "string" \/ text.s = "" THEN ""
    ELSE
    LET cleaned == Trim(CollapseSpaces(text.s))
        sentence == Trim(FirstSentenceMatch(cleaned))
        truncated == Substr(cleaned, 1, maxLength)
        lastSpace == LastIndexOfSpace(truncated)
    IN IF cleaned = "" THEN ""
       ELSE IF FirstSentenceMatch(cleaned) # "" /\ Len(sentence) <= maxLength THEN sentence
       ELSE IF Len(cleaned) <= maxLength THEN cleaned
       ELSE IF 10 * lastSpace > 7 * maxLength          \* lastSpace > maxLength * 0.7
            THEN Substr(truncated, 1, lastSpace) \o "..."
            ELSE truncated \o "..."

\* the default of extractFirstSentenceOrTruncate's maxLength
DefaultMaxLength == 60

\* the parsed message files of a listing, in listing order:
\* messages.push({ ...message, filename: file })
RECURSIVE ReadMessages(_)
ReadMessages(entries) ==
    IF entries = <<>> THEN <<>>
    ELSE LET f == Head(entries)
             m == f.content.json
             rec == IF IsObject(m)
                    THEN [id |-> m.id, role |-> m.role, time |-> m.time, filename |-> f.name]
                    ELSE [id |-> Undefined, role |-> Undefined, time |-> Undefined,
                          filename |-> f.name]
         IN IF MatchesPattern(f.name, "msg_") /\ f.content.kind = "json"
            THEN <<rec>> \o ReadMessages(Tail(entries))
            ELSE ReadMessages(Tail(entries))

\* a.time?.created || 0
CreatedOrZero(m) ==
    IF IsObject(m.time) /\ m.time.created.t = "number" THEN m.time.created.n ELSE 0

\* messages.sort((a, b) => (a.time?.created || 0) - (b.time?.created || 0)): the
\* sort is stable, so messages of equal time keep their listing order
RECURSIVE InsertByCreated(_, _)
InsertByCreated(sorted, m) ==
    IF sorted = <<>> THEN <<m>>
    ELSE IF CreatedOrZero(m) < CreatedOrZero(Head(sorted)) THEN <<m>> \o sorted
    ELSE <<Head(sorted)>> \o InsertByCreated(Tail(sorted), m)

RECURSIVE SortByCreated(_)
SortByCreated(ms) ==
    IF ms = <<>> THEN <<>>
    ELSE InsertByCreated(SortByCreated(SubSeq(ms, 1, Len(ms) - 1)), ms[Len(ms)])

\* the loop over the part files: the first text part decides the result
RECURSIVE TitleFromParts(_)
TitleFromParts(entries) ==
    IF entries = <<>> THEN Null
    ELSE LET f == Head(entries)
             part == f.content.json
         IN IF /\ MatchesPattern(f.name, "prt_")
               /\ f.content.kind = "json"
               /\ IsObject(part)                    \* null.type throws: the file is skipped
               /\ part.type = Str("text")
               /\ Truthy(part.text)
            THEN LET extracted == ExtractFirstSentenceOrTruncate(part.text, DefaultMaxLength)
                 IN IF extracted # "" THEN Str(extracted) ELSE Null
            ELSE TitleFromParts(Tail(entries))

\* extractSemanticTitle(sessionID, storagePath)
ExtractSemanticTitle(sessionID, st) ==
    IF sessionID.t # "string" THEN Null             \* join() throws on a non-string
    ELSE
    LET dir == MessageDir(st, sessionID.s)
        messages == SortByCreated(ReadMessages(dir.entries))
        users == SelectSeq(messages, LAMBDA m : m.role = Str("user"))
    IN IF ~dir.ok THEN Null
       ELSE IF users = <<>> THEN Null
       ELSE IF users[1].id.t # "string" THEN Null   \* join() throws on a non-string
       ELSE IF ~PartDir(st, users[1].id.s).ok THEN Null
       ELSE TitleFromParts(PartDir(st, users[1].id.s).entries)

\* obj.name of a parsed JSON value: undefined when obj is no object or has no such property
Property(obj, name) == IF IsObject(obj) /\ name \in DOMAIN obj THEN obj[name] ELSE Undefined

\* text.split(/\n\n+/)[0]: the text before its first empty line
FirstParagraph(text) ==
    IF \E i \in 1..Len(text) : OccursAt(text, "\n\n", i)
    THEN Substr(text, 1, (CHOOSE i \in 1..Len(text) :
                             /\ OccursAt(text, "\n\n", i)
                             /\ \A j \in 1..(i - 1) : ~OccursAt(text, "\n\n", j)) - 1)
    ELSE text

\* s.match(/[^.!?]+[.!?]+/g) from position pos on: each match is a longest run
\* of other characters with the longest run of terminators behind it
RECURSIVE SentencesFrom(_, _)
SentencesFrom(s, pos) ==
    IF \A i \in pos..Len(s) : IsTerminator(CharAt(s, i)) THEN <<>>
    ELSE LET a == CHOOSE i \in pos..Len(s) :
                      /\ NotTerminator(CharAt(s, i))
                      /\ \A j \in pos..(i - 1) : IsTerminator(CharAt(s, j))
             e1 == RunEnd(s, a, NotTerminator)
             e2 == RunEnd(s, e1 + 1, IsTerminator)
         IN IF e1 = Len(s) THEN <<>>
            ELSE <<Substr(s, a, e2)>> \o SentencesFrom(s, e2 + 1)

\* parts.join(' ')
RECURSIVE JoinWithSpace(_)
JoinWithSpace(parts) ==
    IF parts = <<>> THEN ""
    ELSE IF Len(parts) = 1 THEN parts[1]
    ELSE parts[1] \o " " \o JoinWithSpace(Tail(parts))

\* lines 218-229: the description made of a text part's text
DescriptionOfText(partText) ==
    LET firstPara == FirstParagraph(Trim(partText))
        matched == SentencesFrom(firstPara, 1)
        sentences == IF matched = <<>> THEN <<firstPara>> ELSE matched
        description == Trim(JoinWithSpace(SubSeq(sentences, 1,
                                                 IF Len(sentences) < 3 THEN Len(sentences) ELSE 3)))
    IN CollapseSpaces(description)

\* the loop over the part files of extractSessionDescription: the first text
\* part decides the result; text.trim() throws on a text that is no string,
\* and the file is skipped
RECURSIVE DescriptionFromParts(_)
DescriptionFromParts(entries) ==
    IF entries = <<>> THEN Null
    ELSE LET f == Head(entries)
             part == f.content.json
         IN IF /\ MatchesPattern(f.name, "prt_")
               /\ f.content.kind = "json"
               /\ IsObject(part)
               /\ Property(part, "type") = Str("text")
               /\ Truthy(Property(part, "text"))
               /\ Property(part, "text").t = "string"
            THEN Str(DescriptionOfText(part.text.s))
            ELSE DescriptionFromParts(Tail(entries))

\* extractSessionDescription(sessionID, storagePath)
ExtractSessionDescription(sessionID, st) ==
    IF sessionID.t # "string" THEN Null
    ELSE
    LET dir == MessageDir(st, sessionID.s)
        messages == SortByCreated(ReadMessages(dir.entries))
        users == SelectSeq(messages, LAMBDA m : m.role = Str("user"))
    IN IF ~dir.ok THEN Null
       ELSE IF users = <<>> THEN Null
       ELSE IF users[1].id.t # "string" THEN Null
       ELSE IF ~PartDir(st, users[1].id.s).ok THEN Null
       ELSE DescriptionFromParts(PartDir(st, users[1].id.s).entries)

\* messages.sort((a, b) => (b.time?.created || 0) - (a.time?.created || 0)): newest
\* first, messages of equal time in listing order
RECURSIVE InsertByCreatedDescending(_, _)
InsertByCreatedDescending(sorted, m) ==
    IF sorted = <<>> THEN <<m>>
    ELSE IF CreatedOrZero(m) > CreatedOrZero(Head(sorted)) THEN <<m>> \o sorted
    ELSE <<Head(sorted)>> \o InsertByCreatedDescending(Tail(sorted), m)

RECURSIVE SortByCreatedDescending(_)
SortByCreatedDescending(ms) ==
    IF ms = <<>> THEN <<>>
    ELSE InsertByCreatedDescending(SortByCreatedDescending(SubSeq(ms, 1, Len(ms) - 1)),
                                   ms[Len(ms)])

\* part.state?.input?.description
ToolDescription(part) == Property(Property(Property(part, "state"), "input"), "description")

\* the loop over the part files of extractCurrentTask: taskTexts, in push order
RECURSIVE TaskTexts(_)
TaskTexts(entries) ==
    IF entries = <<>> THEN <<>>
    ELSE LET f == Head(entries)
             part == f.content.json
             isText == /\ Property(part, "type") = Str("text")
                       /\ Truthy(Property(part, "text"))
             isTool == /\ Property(part, "type") = Str("tool")
                       /\ Truthy(ToolDescription(part))
         IN IF ~MatchesPattern(f.name, "prt_") \/ f.content.kind # "json" \/ ~IsObject(part)
            THEN TaskTexts(Tail(entries))
            ELSE IF isText /\ part.text.t # "string"          \* trim() throws: the file is skipped
            THEN TaskTexts(Tail(entries))
            ELSE (IF isText THEN <<Str(Trim(part.text.s))>> ELSE <<>>)
                 \o (IF isTool THEN <<ToolDescription(part)>> ELSE <<>>)
                 \o TaskTexts(Tail(entries))

\* the length extractCurrentTask truncates to
TaskMaxLength == 80

\* lines 317-327: the first sentence of the first text, or its first 80 characters
TaskOfText(fullText) ==
    IF FirstSentenceMatch(fullText) # "" THEN Trim(FirstSentenceMatch(fullText))
    ELSE Trim(Substr(fullText, 1, TaskMaxLength))
         \o (IF Len(fullText) > TaskMaxLength THEN "..." ELSE "")

\* extractCurrentTask(sessionID, storagePath)
ExtractCurrentTask(sessionID, st) ==
    IF sessionID.t # "string" THEN Null
    ELSE
    LET dir == MessageDir(st, sessionID.s)
        messages == SortByCreatedDescending(ReadMessages(dir.entries))
        assistants == SelectSeq(messages, LAMBDA m : m.role = Str("assistant"))
        partDir == PartDir(st, assistants[1].id.s)
        taskTexts == TaskTexts(partDir.entries)
    IN IF ~dir.ok THEN Null
       ELSE IF assistants = <<>> THEN Null
       ELSE IF assistants[1].id.t # "string" THEN Null
       ELSE IF ~partDir.ok THEN Null
       ELSE IF taskTexts = <<>> THEN Null
       ELSE IF taskTexts[1].t # "string" THEN Null      \* match is no function: caught
       ELSE Str(TaskOfText(taskTexts[1].s))

----------------------------------------------------------------------------
(* The storage trees of the model *)

SessionFile(id, title, time, directory, parentID) ==
    [t |-> "object", id |-> id, slug |-> Undefined, title |-> title, directory |-> directory,
     time |-> time, parentID |-> parentID, version |-> Str("1.0.0"),
     hasSummary |-> FALSE, summary |-> [additions |-> 0, deletions |-> 0, files |-> 0]]

Time(updated) == [t |-> "object", updated |-> Num(updated)]

MessageFile(id, role, agent, created) ==
    [t |-> "object", id |-> Str(id), role |-> Str(role), agent |-> agent,
     time |-> IF created = Undefined THEN Undefined
              ELSE [t |-> "object", created |-> created]]

PartFile(type, text) == [t |-> "object", type |-> Str(type), text |-> Str(text)]

ToolPartFile(description) ==
    [t |-> "object", type |-> Str("tool"), text |-> Undefined,
     state |-> [t |-> "object", input |-> [t |-> "object", description |-> Str(description)]]]

GenericTitle == Str("New session - 2026-01-28T10:16:06.133Z")

\* a session with a generic title, at two values of time.updated
RawA == SessionFile(Str("ses_a"), GenericTitle, Time(ClockStep), Str("/work/alpha"), Undefined)
RawA2 == SessionFile(Str("ses_a"), GenericTitle, Time(2 * ClockStep), Str("/work/alpha"), Undefined)
\* a subagent session; its title is generic too (it starts with a date)
RawB == SessionFile(Str("ses_b"), Str("2026-01-28 Review code (@coder subagent)"),
                    Time(2 * ClockStep), Str("/work/alpha/"), Str("ses_a"))
\* a session with a semantic title and no time
RawC == SessionFile(Str("ses_c"), Str("Build authentication system"), Undefined,
                    Undefined, Undefined)
\* a session whose title is not a string
RawNum == SessionFile(Str("ses_n"), Num(123), Time(ClockStep), Undefined, Undefined)
\* a session file without a title and without a time
RawT == SessionFile(Str("ses_t"), Undefined, Undefined, Undefined, Undefined)
\* a session in the directory named "global"
RawG == SessionFile(Str("global-session"), Str("Global Session"), Time(ClockStep),
                    Str("/test/global/path"), Undefined)

Project(name, isDirectory, dir) == [name |-> name, isDirectory |-> isDirectory, dir |-> dir]

\* <storageRoot>/session of the first tree: a project with good and bad files,
\* the directory "global", a plain file and an unreadable directory
SessionTree1 ==
    Dir(<<Project("alpha", TRUE,
                  Dir(<<File("ses_a.json", Json(RawA)),
                        File("ses_bad.json", InvalidJson),
                        File("notes.json", Json(RawC)),
                        File("ses_b.json", Json(RawB)),
                        File("ses_c.json", Json(RawC))>>)),
          Project("global", TRUE,
                  Dir(<<File("ses_gbad.json", InvalidJson),
                        File("ses_g.json", Json(RawG))>>)),
          Project("README.md", FALSE, MissingDir),
          Project("locked", TRUE, MissingDir)>>)

\* the second tree: the session ses_a has been updated; files that fail in
\* every way next to files that parse; an older and a newer session in a
\* directory that is listed first
SessionTree2 ==
    Dir(<<Project("gamma", TRUE,
                  Dir(<<File("ses_c.json", Json(RawC)),
                        File("ses_b.json", Json(RawB))>>)),
          Project("beta", TRUE,
                  Dir(<<File("ses_null.json", Json(Null)),
                        File("ses_num.json", Json(RawNum)),
                        File("ses_unread.json", Unreadable),
                        File("ses_a.json", Json(RawA2)),
                        File("ses_t.json", Json(RawT))>>))>>)

\* the third tree: one session, so that both of its cache entries stay stored
SessionTree3 == Dir(<<Project("solo", TRUE, Dir(<<File("ses_a.json", Json(RawA))>>))>>)

SessionTrees == {MissingDir, SessionTree1, SessionTree2, SessionTree3}

NoFiles == [x \in {} |-> MissingDir]

\* message and part files: the first message by file name is not the first by time
Messages1 ==
    [message |->
        [id \in {"ses_a", "ses_b", "ses_c"} |->
            IF id = "ses_a"
            THEN Dir(<<File("msg_002.json",
                            Json(MessageFile("msg_2", "user", Str("plan"), Num(1)))),
                       File("msg_001.json",
                            Json(MessageFile("msg_1", "assistant", Str("  BUILD  "), Num(2))))>>)
            ELSE IF id = "ses_b"
            THEN Dir(<<File("msg_001.json",
                            Json(MessageFile("msg_3", "user", Str("explore"), Undefined)))>>)
            ELSE Dir(<<File("msg_001.json", InvalidJson)>>)],
     part |->
        [id \in {"msg_1", "msg_2", "msg_3"} |->
            IF id = "msg_2"
            THEN Dir(<<File("prt_001.json", InvalidJson),
                       File("prt_002.json", Json(PartFile("text", "Fix auth bug. Detail.")))>>)
            ELSE IF id = "msg_3"
            THEN Dir(<<File("prt_001.json",
                            Json(PartFile("text", "Explore  the\ncache module")))>>)
            ELSE Dir(<<File("prt_001.json", Json(ToolPartFile("Run the test suite"))),
                       File("prt_002.json",
                            Json(PartFile("text", " Patching the cache now. Then tests.")))>>)]]

\* the same sessions before any message was written
Messages0 == [message |-> NoFiles, part |-> NoFiles]

MessageTrees == {Messages0, Messages1}

Storages ==
    {[session |-> tree, message |-> m.message, part |-> m.part] :
        tree \in SessionTrees, m \in MessageTrees}

\* the parsed session files and the session ids of these trees, and the clock's values
RawFiles == {RawA, RawA2, RawB, RawC, RawNum, RawG, RawT}
SessionIds == {raw.id : raw \in RawFiles}
Times == {i * ClockStep : i \in 0..(MaxNow \div ClockStep)}

\* detectAgent and extractSemanticTitle on these trees, evaluated once
DetectAgentTable == [st \in Storages, id \in SessionIds |-> DetectAgent(id, st)]
ExtractSemanticTitleTable == [st \in Storages, id \in SessionIds |-> ExtractSemanticTitle(id, st)]

\* extractSessionDescription and extractCurrentTask on these trees, evaluated once
ExtractSessionDescriptionTable ==
    [st \in Storages, id \in SessionIds |-> ExtractSessionDescription(id, st)]
ExtractCurrentTaskTable == [st \in Storages, id \in SessionIds |-> ExtractCurrentTask(id, st)]

----------------------------------------------------------------------------
(* Enrichers.  The cache and its two histories travel together as          *)
(* [c, ins, acc]; an enricher returns the enriched session, the cache      *)
(* afterwards, whether it invoked the content extractor, and the object it *)
(* was given as it is after the call.                                      *)

CsGet(cs, k, t) ==
    The({[c |-> c2, ins |-> InsAfterRemoval(cs.ins, c2), acc |-> AccAfter(cs.acc, c2, k, TRUE)] :
         c2 \in {CacheGetStore(cs.c, k, t)}})

CsSet(cs, k, v, t) ==
    The({[c |-> c2, ins |-> InsAfterSet(cs.ins, cs.c, k), acc |-> AccAfter(cs.acc, c2, k, TRUE)] :
         c2 \in {CacheSetStore(cs.c, k, v, t)}})

\* session.time?.updated || 0
TimeUpdatedOrZero(time) ==
    IF IsObject(time) /\ time.updated.t = "number" THEN time.updated.n ELSE 0

\* variant: the key leaves the timestamp out
AgentCacheKey_NoTimestamp(session) == "agent_" \o TemplateString(session.id)

\* `agent_${session.id}_${session.updated}`
AgentCacheKey(session) ==
    "agent_" \o TemplateString(session.id) \o "_" \o NumberToString(session.updated)

\* `title_${session.id}_${session.time?.updated || 0}`
TitleCacheKey(session) ==
    "title_" \o TemplateString(session.id) \o "_" \o NumberToString(TimeUpdatedOrZero(session.time))

\* variant: the agent is detected on every call, whatever the cache holds
EnrichSessionAgent_AlwaysDetect(session, st, cs, t) ==
    LET detectedAgent == DetectAgentTable[st, session.id]
    IN The({[session |-> [session EXCEPT !.agent = detectedAgent],
             cs |-> CsSet(afterGet, cacheKey, detectedAgent, t),
             extracted |-> TRUE, key |-> cacheKey, input |-> session] :
            cacheKey \in {AgentCacheKey(session)}, afterGet \in {CsGet(cs, AgentCacheKey(session), t)}})

\* enrichSessionAgent(session, storagePath, cache) at time t
EnrichSessionAgent(session, st, cs, t) ==
    LET detectedAgent == DetectAgentTable[st, session.id]
    IN The({The({IF cachedAgent # Undefined
                 THEN [session |-> [session EXCEPT !.agent = cachedAgent],
                       cs |-> afterGet, extracted |-> FALSE, key |-> cacheKey, input |-> session]
                 ELSE [session |-> [session EXCEPT !.agent = detectedAgent],
                       cs |-> CsSet(afterGet, cacheKey, detectedAgent, t),
                       extracted |-> TRUE, key |-> cacheKey, input |-> session] :
                 cachedAgent \in {CacheGetResult(cs.c, cacheKey, t)},
                 afterGet \in {CsGet(cs, cacheKey, t)}}) :
            cacheKey \in {AgentCacheKey(session)}})

\* title.match(/^\d{4}-\d{2}-\d{2}/)
MatchesIsoDate(s) ==
    /\ Len(s) >= 10
    /\ \A i \in {1, 2, 3, 4, 6, 7, 9, 10} : IsDigit(CharAt(s, i))
    /\ CharAt(s, 5) = "-"
    /\ CharAt(s, 8) = "-"

\* variant: every title is taken for generic
IsGenericTitle_Always(title) == TRUE

\* isGenericTitle of enrichSessionTitle, on session.title || ''
IsGenericTitle(title) ==
    LET s == IF title.t = "string" THEN title.s ELSE ""
    IN StartsWith(s, "New session - ") \/ MatchesIsoDate(s) \/ s = ""

\* variant: a cache hit returns the cached value without the fallback to the original title
TitleOnHit_NoFallback(cachedTitle, title) == cachedTitle

\* cachedTitle || session.title
TitleOnHit(cachedTitle, title) == JsOr(cachedTitle, title)

\* variant: the extracted value becomes the title even when nothing was extracted
TitleOnMiss_NoFallback(semanticTitle, title) == semanticTitle

\* semanticTitle || session.title
TitleOnMiss(semanticTitle, title) == JsOr(semanticTitle, title)

\* enrichSessionTitle(session, storagePath, cache) at time t
EnrichSessionTitle(session, st, cs, t) ==
    LET semanticTitle == ExtractSemanticTitleTable[st, session.id]
    IN IF ~IsGenericTitle(session.title)
       THEN [session |-> session, cs |-> cs, extracted |-> FALSE, key |-> "", input |-> session]
       ELSE The({The({IF cachedTitle # Undefined
                      THEN [session |-> [session EXCEPT
                                           !.title = TitleOnHit(cachedTitle, session.title)],
                            cs |-> afterGet, extracted |-> FALSE, key |-> cacheKey, input |-> session]
                      ELSE [session |-> [session EXCEPT
                                           !.title = TitleOnMiss(semanticTitle, session.title)],
                            cs |-> CsSet(afterGet, cacheKey, semanticTitle, t),
                            extracted |-> TRUE, key |-> cacheKey, input |-> session] :
                      cachedTitle \in {CacheGetResult(cs.c, cacheKey, t)},
                      afterGet \in {CsGet(cs, cacheKey, t)}}) :
                 cacheKey \in {TitleCacheKey(session)}})

\* { ...session, [name]: value }: a copy of the session with one property set
WithProperty(session, name, value) ==
    [x \in DOMAIN session \cup {name} |-> IF x = name THEN value ELSE session[x]]

\* session[name]: undefined when the session has no such property
SessionProperty(session, name) == IF name \in DOMAIN session THEN session[name] ELSE Undefined

\* `desc_${session.id}_${session.time?.updated || 0}`
DescriptionCacheKey(session) ==
    "desc_" \o TemplateString(session.id) \o "_" \o NumberToString(TimeUpdatedOrZero(session.time))

\* `task_${session.id}_${session.time?.updated || 0}`
TaskCacheKey(session) ==
    "task_" \o TemplateString(session.id) \o "_" \o NumberToString(TimeUpdatedOrZero(session.time))

\* variant: the description replaces the session's description
WithDetailedDescription_AsDescription(session, value) ==
    WithProperty(session, "description", value)

\* { ...session, detailedDescription: value }
WithDetailedDescription(session, value) == WithProperty(session, "detailedDescription", value)

\* enrichSessionDescription(session, storagePath, cache) at time t
EnrichSessionDescription(session, st, cs, t) ==
    LET description == ExtractSessionDescriptionTable[st, session.id]
    IN The({The({IF cachedDesc # Undefined
                 THEN [session |-> WithDetailedDescription(
                                       session, JsOr(cachedDesc, SessionProperty(session, "description"))),
                       cs |-> afterGet, extracted |-> FALSE, key |-> cacheKey, input |-> session]
                 ELSE [session |-> WithDetailedDescription(
                                       session, JsOr(description, SessionProperty(session, "description"))),
                       cs |-> CsSet(afterGet, cacheKey, description, t),
                       extracted |-> TRUE, key |-> cacheKey, input |-> session] :
                 cachedDesc \in {CacheGetResult(cs.c, cacheKey, t)},
                 afterGet \in {CsGet(cs, cacheKey, t)}}) :
            cacheKey \in {DescriptionCacheKey(session)}})

\* variant: a cached null counts as a miss
EnrichSessionCurrentTask_TruthyHit(session, st, cs, t) ==
    LET task == ExtractCurrentTaskTable[st, session.id]
    IN The({The({IF Truthy(cachedTask)
                 THEN [session |-> WithProperty(session, "currentTask", cachedTask),
                       cs |-> afterGet, extracted |-> FALSE, key |-> cacheKey, input |-> session]
                 ELSE [session |-> WithProperty(session, "currentTask", task),
                       cs |-> CsSet(afterGet, cacheKey, task, t),
                       extracted |-> TRUE, key |-> cacheKey, input |-> session] :
                 cachedTask \in {CacheGetResult(cs.c, cacheKey, t)},
                 afterGet \in {CsGet(cs, cacheKey, t)}}) :
            cacheKey \in {TaskCacheKey(session)}})

\* enrichSessionCurrentTask(session, storagePath, cache) at time t
EnrichSessionCurrentTask(session, st, cs, t) ==
    LET task == ExtractCurrentTaskTable[st, session.id]
    IN The({The({IF cachedTask # Undefined
                 THEN [session |-> WithProperty(session, "currentTask", cachedTask),
                       cs |-> afterGet, extracted |-> FALSE, key |-> cacheKey, input |-> session]
                 ELSE [session |-> WithProperty(session, "currentTask", task),
                       cs |-> CsSet(afterGet, cacheKey, task, t),
                       extracted |-> TRUE, key |-> cacheKey, input |-> session] :
                 cachedTask \in {CacheGetResult(cs.c, cacheKey, t)},
                 afterGet \in {CsGet(cs, cacheKey, t)}}) :
            cacheKey \in {TaskCacheKey(session)}})

----------------------------------------------------------------------------
(* discoverSessions *)

\* variant: an age equal to busyMinutes still counts as busy
DetermineStatus_BusyAtThreshold(ageMinutes, thresholds) ==
    IF ageMinutes <= thresholds.busyMinutes THEN "busy"
    ELSE IF ageMinutes < thresholds.staleMinutes THEN "idle"
    ELSE "stale"

\* determineStatus(ageMinutes, thresholds)
DetermineStatus(ageMinutes, thresholds) ==
    IF ageMinutes < thresholds.busyMinutes THEN "busy"
    ELSE IF ageMinutes < thresholds.staleMinutes THEN "idle"
    ELSE "stale"

\* variant: the planning keywords are tested before the research keywords
DeterminePhase_PlanningFirst(title, ageMinutes, thresholds) ==
    LET t == ToLowerCase(title)
    IN IF Includes(t, "plan") \/ Includes(t, "design") \/ Includes(t, "phase")
       THEN "planning"
       ELSE IF Includes(t, "research") \/ Includes(t, "explore") \/ Includes(t, "investigate")
       THEN "research"
       ELSE IF /\ ageMinutes < thresholds.busyMinutes
               /\ (Includes(t, "implement") \/ Includes(t, "fix") \/ Includes(t, "add"))
       THEN "implementing"
       ELSE IF Includes(t, "complete") \/ Includes(t, "done") \/ Includes(t, "verify")
       THEN "done"
       ELSE IF ageMinutes < thresholds.busyMinutes THEN "implementing" ELSE "done"

\* determinePhase(title, ageMinutes, thresholds)
DeterminePhase(title, ageMinutes, thresholds) ==
    LET t == ToLowerCase(title)
    IN IF Includes(t, "research") \/ Includes(t, "explore") \/ Includes(t, "investigate")
       THEN "research"
       ELSE IF Includes(t, "plan") \/ Includes(t, "design") \/ Includes(t, "phase")
       THEN "planning"
       ELSE IF /\ ageMinutes < thresholds.busyMinutes
               /\ (Includes(t, "implement") \/ Includes(t, "fix") \/ Includes(t, "add"))
       THEN "implementing"
       ELSE IF Includes(t, "complete") \/ Includes(t, "done") \/ Includes(t, "verify")
       THEN "done"
       ELSE IF ageMinutes < thresholds.busyMinutes THEN "implementing" ELSE "done"

\* whether /@(\w+)\s+subagent/i matches with its "@" at position i
SubagentAt(s, i) ==
    LET we == RunEnd(s, i + 1, IsWord)
        se == RunEnd(s, we + 1, IsSpace)
    IN /\ CharAt(s, i) = "@"
       /\ we >= i + 1
       /\ se >= we + 1
       /\ ToLowerCase(Substr(s, se + 1, se + 8)) = "subagent"

\* title.match(/@(\w+)\s+subagent/i): the captured name, "" without a match
SubagentMatch(s) ==
    IF \E i \in 1..Len(s) : SubagentAt(s, i)
    THEN LET i == CHOOSE x \in 1..Len(s) :
                    SubagentAt(s, x) /\ \A y \in 1..(x - 1) : ~SubagentAt(s, y)
         IN Substr(s, i + 1, RunEnd(s, i + 1, IsWord))
    ELSE ""

\* where a match of /\s*\(@\w+\s+subagent\)/i that starts at position p ends (0: no match)
MarkerEnd(s, p) ==
    LET q == RunEnd(s, p, IsSpace) + 1
        we == RunEnd(s, q + 2, IsWord)
        se == RunEnd(s, we + 1, IsSpace)
    IN IF /\ Substr(s, q, q + 1) = "(@"
          /\ we >= q + 2
          /\ se >= we + 1
          /\ ToLowerCase(Substr(s, se + 1, se + 8)) = "subagent"
          /\ CharAt(s, se + 9) = ")"
       THEN se + 9
       ELSE 0

\* variant: the description is not trimmed after the marker is removed
StripSubagentMarker_NoTrim(s) ==
    IF \E p \in 1..Len(s) : MarkerEnd(s, p) > 0
    THEN LET p == CHOOSE x \in 1..Len(s) :
                    MarkerEnd(s, x) > 0 /\ \A y \in 1..(x - 1) : MarkerEnd(s, y) = 0
         IN Substr(s, 1, p - 1) \o Substr(s, MarkerEnd(s, p) + 1, Len(s))
    ELSE s

\* title.replace(/\s*\(@\w+\s+subagent\)/i, '').trim()
StripSubagentMarker(s) ==
    IF \E p \in 1..Len(s) : MarkerEnd(s, p) > 0
    THEN LET p == CHOOSE x \in 1..Len(s) :
                    MarkerEnd(s, x) > 0 /\ \A y \in 1..(x - 1) : MarkerEnd(s, y) = 0
         IN Trim(Substr(s, 1, p - 1) \o Substr(s, MarkerEnd(s, p) + 1, Len(s)))
    ELSE Trim(s)

IsSlash(c) == c = "/"

\* a path without its trailing slashes (the root "/" stays)
StripTrailingSlashes(s) ==
    LET e == (CHOOSE j \in 1..(Len(s) + 1) :
                 /\ \A x \in j..Len(s) : IsSlash(CharAt(s, x))
                 /\ j > 1 => ~IsSlash(CharAt(s, j - 1))) - 1
    IN IF e = 0 /\ Len(s) > 0 THEN "/" ELSE Substr(s, 1, e)

\* path.basename(p)
Basename(p) ==
    LET s == StripTrailingSlashes(p)
        cut == IF \E i \in 1..Len(s) : CharAt(s, i) = "/"
               THEN CHOOSE i \in 1..Len(s) :
                        CharAt(s, i) = "/" /\ \A j \in (i + 1)..Len(s) : CharAt(s, j) # "/"
               ELSE 0
    IN IF s = "/" THEN "" ELSE Substr(s, cut + 1, Len(s))

ZeroSummary == [additions |-> 0, deletions |-> 0, files |-> 0]

\* a field of a parsed session file: undefined when the value is not an object
Field(v, f) == IF IsObject(v) THEN v[f] ELSE Undefined

\* whether building the base session from the parsed file throws: a property
\* read on null, toLowerCase/match on a title that is not a string, basename on
\* a directory that is not a string
BaseSessionThrows(raw) ==
    \/ raw.t = "null"
    \/ (Truthy(Field(raw, "title")) /\ Field(raw, "title").t # "string")
    \/ (Truthy(Field(raw, "directory")) /\ Field(raw, "directory").t # "string")

\* lines 54-90 of discoverSessions: the base session of a parsed file at time t
BaseSession(raw, t, thresholds) ==
    LET updated == TimeUpdatedOrZero(Field(raw, "time"))
        ageMinutes == (t - updated) \div MsPerMinute
        title == IF Truthy(Field(raw, "title")) THEN Field(raw, "title").s ELSE ""
        captured == SubagentMatch(title)
        isSubagent == captured # ""
    IN [id |-> Field(raw, "id"),
        slug |-> JsOr(Field(raw, "slug"), Str("unknown")),
        title |-> Field(raw, "title"),
        description |-> IF isSubagent THEN Str(StripSubagentMarker(title)) ELSE Str(title),
        directory |-> Field(raw, "directory"),
        projectName |-> IF Truthy(Field(raw, "directory"))
                        THEN Str(Basename(Field(raw, "directory").s))
                        ELSE Str("unknown"),
        updated |-> updated,
        ageMinutes |-> ageMinutes,
        status |-> DetermineStatus(ageMinutes, thresholds),
        phase |-> DeterminePhase(title, ageMinutes, thresholds),
        agent |-> IF isSubagent THEN Str(captured) ELSE General,
        isSubagent |-> isSubagent,
        parentID |-> JsOr(Field(raw, "parentID"), Null),
        version |-> Field(raw, "version"),
        summary |-> IF IsObject(raw) /\ raw.hasSummary THEN raw.summary ELSE ZeroSummary,
        time |-> Field(raw, "time")]

\* the base sessions of the model's files at the clock's values, evaluated once
BaseSessionTable ==
    [raw \in {f \in RawFiles : ~BaseSessionThrows(f)}, t \in Times |->
        BaseSession(raw, t, Thresholds)]

\* variant: the agent is detected for every session, subagent or not
EnrichAgentIfNeeded_Always(base, st, cs, t) == EnrichSessionAgent(base, st, cs, t)

\* lines 96-98: "Only detect agent for non-subagent sessions"
EnrichAgentIfNeeded(base, st, cs, t) ==
    IF ~base.isSubagent
    THEN EnrichSessionAgent(base, st, cs, t)
    ELSE [session |-> base, cs |-> cs, extracted |-> FALSE, key |-> ""]

\* variant: the description of the base session is kept
ResetDescription_Never(session, isSubagent) == session

\* variant: the phase is derived again, from the enriched title
ResetDescription_Reclassify(session, isSubagent) ==
    [session EXCEPT !.description = IF ~isSubagent THEN session.title ELSE @,
                    !.phase = DeterminePhase(IF Truthy(session.title)
                                             THEN session.title.s ELSE "",
                                             session.ageMinutes, Thresholds)]

\* lines 103-106: "Ensure description is set to title (after enrichment) if
\* not a subagent"
ResetDescription(session, isSubagent) ==
    IF ~isSubagent
    THEN [session EXCEPT !.description = session.title]
    ELSE session

\* the body of the try block of one session file (lines 51-108) at time t:
\* whether it throws, and if not the base session, the enriched session, the
\* cache afterwards and whether enrichSessionAgent was called
ProcessFile(file, st, cs, t) ==
    IF file.content.kind # "json" \/ BaseSessionThrows(file.content.json)
    THEN [threw |-> TRUE, cs |-> cs, base |-> <<>>, session |-> <<>>, agentCalled |-> FALSE]
    ELSE LET base == BaseSessionTable[file.content.json, t]
         IN The({The({[threw |-> FALSE, cs |-> b.cs, base |-> base,
                       session |-> ResetDescription(b.session, base.isSubagent),
                       agentCalled |-> a.key # ""] :
                      b \in {EnrichSessionTitle(a.session, st, a.cs, t)}}) :
                 a \in {EnrichAgentIfNeeded(base, st, cs, t)}})

\* lines 109-111: catch { /* skip unreadable/bad JSON files */ }
SkipFile(acc) == acc

\* line 107: sessions.push(enrichedSession), with what the model records of the file
PushSession(acc, r) ==
    [sessions |-> Append(acc.sessions, r.session),
     bases |-> Append(acc.bases, r.base),
     agentCalls |-> IF r.agentCalled THEN Append(acc.agentCalls, r.base) ELSE acc.agentCalls,
     cs |-> r.cs]

\* the loop over the files of one project directory (lines 47-112); acc carries
\* the sessions pushed so far, in push order, with the base session of each,
\* the sessions enrichSessionAgent was called for, and the cache
RECURSIVE ScanFiles(_, _, _, _)
ScanFiles(files, found, st, t) ==
    The({IF files = <<>> THEN acc
         ELSE IF ~MatchesPattern(Head(files).name, "ses_")
         THEN ScanFiles(Tail(files), acc, st, t)
         ELSE The({ScanFiles(Tail(files),
                             IF r.threw THEN SkipFile(acc) ELSE PushSession(acc, r),
                             st, t) :
                   r \in {ProcessFile(Head(files), st, acc.cs, t)}}) :
         acc \in {found}})

\* line 37: if (!project.isDirectory() || project.name === 'global') continue
SkipsProject(project) == ~project.isDirectory \/ project.name = "global"

\* the loop over the entries of <storageRoot>/session (lines 36-113)
RECURSIVE ScanProjects(_, _, _, _)
ScanProjects(projects, found, st, t) ==
    The({IF projects = <<>> THEN acc
         ELSE IF SkipsProject(Head(projects)) \/ ~Head(projects).dir.ok
         THEN ScanProjects(Tail(projects), acc, st, t)
         ELSE ScanProjects(Tail(projects),
                           ScanFiles(Head(projects).dir.entries, acc, st, t), st, t) :
         acc \in {found}})

\* variant: the comparator is a.updated - b.updated, oldest first
RankByUpdated_Ascending(ss, j) ==
    1 + Cardinality({k \in 1..Len(ss) :
                        \/ ss[k].updated < ss[j].updated
                        \/ (ss[k].updated = ss[j].updated /\ k < j)})

\* the position of element j after sessions.sort((a, b) => b.updated - a.updated):
\* behind every newer element and every equally new element that precedes it
\* (the sort is stable)
RankByUpdated(ss, j) ==
    1 + Cardinality({k \in 1..Len(ss) :
                        \/ ss[k].updated > ss[j].updated
                        \/ (ss[k].updated = ss[j].updated /\ k < j)})

\* sessions.sort((a, b) => b.updated - a.updated)
SortByUpdated(ss) ==
    [i \in 1..Len(ss) |-> ss[CHOOSE j \in 1..Len(ss) : RankByUpdated(ss, j) = i]]

\* discoverSessions(storageRoot, Thresholds) at time t: sessions is the returned
\* list, unsorted the list before the sort; threw tells whether an error
\* reaches the caller, which no path of the code does
DiscoverSessions(st, cs, t) ==
    The({[threw |-> FALSE,
          sessions |-> SortByUpdated(done.sessions),
          unsorted |-> done.sessions,
          bases |-> done.bases,
          agentCalls |-> done.agentCalls,
          cs |-> done.cs] :
         done \in {IF ~st.session.ok
                   THEN [sessions |-> <<>>, bases |-> <<>>, agentCalls |-> <<>>, cs |-> cs]
                   ELSE ScanProjects(st.session.entries,
                                     [sessions |-> <<>>, bases |-> <<>>,
                                      agentCalls |-> <<>>, cs |-> cs], st, t)}})

----------------------------------------------------------------------------
(* Operations, as a caller (or a test) invokes them *)

\* the sessions the enrichers are called with directly
AgentInputs == {BaseSessionTable[raw, now] : raw \in {RawA, RawA2}}
SubagentInputs == {BaseSessionTable[raw, now] : raw \in {RawB}}
TitleInputs == {BaseSessionTable[raw, now] : raw \in {RawA, RawA2, RawC}}
DetailInputs == {BaseSessionTable[raw, now] : raw \in {RawA}}

\* the tree the model starts with
InitialStorage ==
    [session |-> SessionTree1, message |-> Messages0.message, part |-> Messages0.part]

\* keys and values of direct cache calls
CacheKeys == {"key" \o NatToString(i) : i \in 1..(maxSize + 1)}
CacheValues == {Str("value1"), Str("value2")}

\* the callers that may have a call in flight at the same time
Callers == {1, 2}

\* a caller without a call: nothing is awaited
\* (readRank, doneRank and overwrote are history: the order in which the calls
\* in flight first read the storage, the order in which they returned, and
\* whether a set of the call found its key stored by another call)
NoCall == [kind |-> "none", pc |-> "idle", p |-> 0, f |-> 0, t |-> 0,
           session |-> <<>>, key |-> "", names |-> <<>>, sessions |-> <<>>,
           times |-> <<>>, result |-> <<>>,
           value |-> Undefined, readRank |-> 0, doneRank |-> 0, overwrote |-> FALSE]

NoCalls == [c \in Callers |-> NoCall]

NoDiscovery == [threw |-> FALSE, sessions |-> <<>>, unsorted |-> <<>>, bases |-> <<>>,
                agentCalls |-> <<>>]

\* no call of discoverSessions precedes on this tree
NoPrev == [valid |-> FALSE, now |-> 0, sessions |-> <<>>, derivable |-> FALSE]

NoOp == [op |-> "init", key |-> "", value |-> Undefined, result |-> Undefined,
         pre |-> <<>>, preIns |-> <<>>, preAcc |-> <<>>,
         arg |-> <<>>, argAfter |-> <<>>, out |-> <<>>, extracted |-> FALSE,
         disc |-> NoDiscovery, prev |-> NoPrev]

Before(op) == [NoOp EXCEPT !.op = op, !.pre = cache, !.preIns = insOrder, !.preAcc = accOrder,
                           !.prev = prev]

Init ==
    /\ now = 0
    /\ cache = <<>>
    /\ insOrder = <<>>
    /\ accOrder = <<>>
    /\ storage = InitialStorage
    /\ prev = NoPrev
    /\ calls = NoCalls
    /\ last = NoOp

\* time passes
Tick ==
    /\ now + ClockStep <= MaxNow
    /\ now' = now + ClockStep
    /\ last' = Before("tick")
    /\ UNCHANGED <<calls, cache, insOrder, accOrder, storage, prev>>

Get(k) ==
    /\ cache' = CacheGetStore(cache, k, now)
    /\ insOrder' = InsAfterRemoval(insOrder, CacheGetStore(cache, k, now))
    /\ accOrder' = AccAfter(accOrder, CacheGetStore(cache, k, now), k, TRUE)
    /\ last' = [Before("get") EXCEPT !.key = k, !.result = CacheGetResult(cache, k, now)]
    /\ prev' = NoPrev
    /\ UNCHANGED <<calls, now, storage>>

Set(k, v) ==
    /\ cache' = CacheSetStore(cache, k, v, now)
    /\ insOrder' = InsAfterSet(insOrder, cache, k)
    /\ accOrder' = AccAfter(accOrder, CacheSetStore(cache, k, v, now), k, TRUE)
    /\ last' = [Before("set") EXCEPT !.key = k, !.value = v]
    /\ prev' = NoPrev
    /\ UNCHANGED <<calls, now, storage>>

Clear ==
    /\ cache' = <<>>
    /\ insOrder' = <<>>
    /\ accOrder' = <<>>
    /\ last' = Before("clear")
    /\ prev' = NoPrev
    /\ UNCHANGED <<calls, now, storage>>

CacheGet == \E k \in CacheKeys : Get(k)
CacheSet == \E k \in CacheKeys, v \in CacheValues : Set(k, v)

NextCache == Tick \/ CacheGet \/ CacheSet \/ Clear

\* the cache alone, as the tests of createCache use it
SpecCache == Init /\ [][NextCache]_vars

\* the process that owns the storage tree rewrites the session files
MutateSessionFiles ==
    /\ storage' \in {st \in Storages \ {storage} :
                        st.message = storage.message /\ st.part = storage.part}
    /\ last' = Before("mutate")
    /\ prev' = NoPrev
    /\ UNCHANGED <<calls, now, cache, insOrder, accOrder>>

\* the process that owns the storage tree rewrites the message and part files
MutateMessageFiles ==
    /\ storage' \in {st \in Storages \ {storage} : st.session = storage.session}
    /\ last' = Before("mutate")
    /\ prev' = NoPrev
    /\ UNCHANGED <<calls, now, cache, insOrder, accOrder>>

Enriched(op, session, r) ==
    /\ cache' = r.cs.c
    /\ insOrder' = r.cs.ins
    /\ accOrder' = r.cs.acc
    /\ last' = [Before(op) EXCEPT !.key = r.key, !.arg = session, !.argAfter = r.input,
                                  !.out = r.session, !.extracted = r.extracted]
    /\ prev' = NoPrev
    /\ UNCHANGED <<calls, now, storage>>

CacheState == [c |-> cache, ins |-> insOrder, acc |-> accOrder]

\* the cache keys of the model's sessions, with the session and the extractor of each
AgentKeys == {<<AgentCacheKey(BaseSessionTable[raw, 0]), raw.id>> :
                 raw \in {f \in RawFiles : ~BaseSessionThrows(f)}}
TitleKeys == {<<TitleCacheKey(BaseSessionTable[raw, 0]), raw.id>> :
                 raw \in {f \in RawFiles : ~BaseSessionThrows(f)}}

\* every entry of store c holds what its extractor returns on the tree st
Derivable(c, st) ==
    \A i \in 1..Len(c) :
        /\ \A k \in AgentKeys : c[i].key = k[1] => c[i].value = DetectAgentTable[st, k[2]]
        /\ \A k \in TitleKeys : c[i].key = k[1] => c[i].value = ExtractSemanticTitleTable[st, k[2]]

\* a direct call of enrichSessionAgent
EnrichAgent ==
    \E session \in AgentInputs :
        \E r \in {EnrichSessionAgent(session, storage, CacheState, now)} :
            Enriched("enrichAgent", session, r)

\* a direct call of enrichSessionAgent for a subagent session, by a caller that
\* shares the cache with discoverSessions
EnrichSubagent ==
    \E session \in SubagentInputs :
        \E r \in {EnrichSessionAgent(session, storage, CacheState, now)} :
            Enriched("enrichAgent", session, r)

\* a direct call of enrichSessionTitle
EnrichTitle ==
    \E session \in TitleInputs :
        \E r \in {EnrichSessionTitle(session, storage, CacheState, now)} :
            Enriched("enrichTitle", session, r)

\* a call of discoverSessions; its awaits complete without the clock advancing
Discover ==
    \E r \in {DiscoverSessions(storage, CacheState, now)} :
       /\ cache' = r.cs.c
       /\ insOrder' = r.cs.ins
       /\ accOrder' = r.cs.acc
       /\ last' = [Before("discover") EXCEPT
                     !.disc = [threw |-> r.threw, sessions |-> r.sessions,
                               unsorted |-> r.unsorted, bases |-> r.bases,
                               agentCalls |-> r.agentCalls]]
       /\ prev' = [valid |-> TRUE, now |-> now, sessions |-> r.sessions,
                   derivable |-> Derivable(cache, storage)]
       /\ UNCHANGED <<calls, now, storage>>

\* a direct call of enrichSessionDescription
EnrichDescription ==
    \E session \in DetailInputs :
        \E r \in {EnrichSessionDescription(session, storage, CacheState, now)} :
            Enriched("enrichDescription", session, r)

\* a direct call of enrichSessionCurrentTask
EnrichCurrentTask ==
    \E session \in DetailInputs :
        \E r \in {EnrichSessionCurrentTask(session, storage, CacheState, now)} :
            Enriched("enrichCurrentTask", session, r)

NextEnrich == Tick \/ MutateMessageFiles \/ EnrichAgent \/ EnrichTitle

\* the enrichers called directly, as the tests of enrichment.js call them
SpecEnrich == Init /\ [][NextEnrich]_vars

NextDetail ==
    \/ Tick
    \/ MutateMessageFiles
    \/ EnrichSubagent
    \/ EnrichTitle
    \/ EnrichDescription
    \/ EnrichCurrentTask

\* the four enrichers over one cache
SpecDetail == Init /\ [][NextDetail]_vars

NextDiscover == Tick \/ MutateSessionFiles \/ MutateMessageFiles \/ EnrichSubagent \/ Discover

\* discoverSessions over a cache that direct calls of enrichSessionAgent share
SpecDiscover == Init /\ [][NextDiscover]_vars

Next == NextCache \/ NextEnrich \/ NextDetail \/ NextDiscover

\* every operation over one shared cache, one call after the other
Spec == Init /\ [][Next]_vars

----------------------------------------------------------------------------
(* The derived fields of one session file (lines 54-90 of discoverSessions), *)
(* for titles, ages and thresholds the trees above do not hold              *)

\* the thresholds range over 0..MaxMinutes
MaxMinutes == 2
ClassifyThresholds == {[busyMinutes |-> b, staleMinutes |-> s] : b, s \in 0..MaxMinutes}

\* the values of Date.now() at the parse: ages from -2 minutes to MaxMinutes + 1
ClassifyTimes == {i * ClockStep : i \in 0..(2 * (MaxMinutes + 1))}

\* time of the parsed file: absent, or later than the earliest clock values
ClassifyFileTimes == {Undefined, Time(MsPerMinute + ClockStep)}

\* titles: keywords of one phase and of several, in both cases of letters, no
\* keyword, no title; the subagent marker in parentheses, without them, twice,
\* and an "@" that is no marker
ClassifyTitles ==
    {Str("Research and plan the design"),
     Str("Plan to fix the bug"),
     Str("Fix login and verify"),
     Str("Verify deployment"),
     Str("Refactor module"),
     Str("EXPLORE Done"),
     Str(""),
     Undefined,
     Str("Task description (@coder subagent)"),
     Str("Ask @coder subagent to add tests"),
     Str("Review \t(@Build_2  SUBAGENT)  now "),
     Str("(@a subagent) then (@b subagent)"),
     Str(" Mail me @ subagent desk"),
     Str("Investigate (@explore subagent)")}

ClassifyFiles ==
    {SessionFile(Str("ses_x"), title, time, Undefined, Undefined) :
        title \in ClassifyTitles, time \in ClassifyFileTimes}

\* a session file has been read and JSON.parse has returned, at some time of the clock
InitClassify ==
    /\ now \in ClassifyTimes
    /\ cache = <<>>
    /\ insOrder = <<>>
    /\ accOrder = <<>>
    /\ storage = InitialStorage
    /\ prev = NoPrev
    /\ calls = NoCalls
    /\ \E raw \in ClassifyFiles, thresholds \in ClassifyThresholds :
          last = [NoOp EXCEPT !.op = "file", !.arg = [raw |-> raw, thresholds |-> thresholds]]

\* lines 54-90: the base session is built from the parsed file
ParseSessionFile ==
    /\ last.op = "file"
    /\ last' = [last EXCEPT !.op = "parse",
                            !.out = BaseSession(last.arg.raw, now, last.arg.thresholds)]
    /\ UNCHANGED <<calls, now, cache, insOrder, accOrder, storage, prev>>

NextClassify == ParseSessionFile

\* the derived fields of one file
SpecClassify == InitClassify /\ [][NextClassify]_vars

----------------------------------------------------------------------------

(* detectAgent on message directories the trees above do not hold *)

\* the session whose agent is detected
DetectId == "ses_d"

\* file names: two that match msg_*.json, the second in lexicographic order
\* being the shorter number, and one that does not match
DetectNames == {"msg_002.json", "msg_10.json", "notes.json"}

\* the values of a message's agent field: absent, null, falsy and truthy ones
DetectAgentValues == {Undefined, Null, Str(""), Num(0), Str("  Build "), Num(42)}

\* what a message file holds
DetectContents ==
    {Unreadable, InvalidJson, Json(Null)}
        \cup {Json(MessageFile("msg_d", "user", agent, Undefined)) : agent \in DetectAgentValues}

DetectFiles == {File(name, content) : name \in DetectNames, content \in DetectContents}

\* the directory is missing, empty, or lists one or two files in any order
DetectDirs ==
    {MissingDir, Dir(<<>>)}
        \cup {Dir(<<f>>) : f \in DetectFiles}
        \cup {Dir(<<pair[1], pair[2]>>) :
                 pair \in {x \in DetectFiles \X DetectFiles : x[1].name # x[2].name}}

\* the message directory of the session is in one of these states
InitDetect ==
    /\ now = 0
    /\ cache = <<>>
    /\ insOrder = <<>>
    /\ accOrder = <<>>
    /\ \E dir \in DetectDirs :
          storage = [session |-> MissingDir,
                     message |-> [id \in {DetectId} |-> dir],
                     part |-> NoFiles]
    /\ prev = NoPrev
    /\ calls = NoCalls
    /\ last = [NoOp EXCEPT !.op = "messages"]

\* a call of detectAgent
DetectAgentCall ==
    /\ last.op = "messages"
    /\ last' = [last EXCEPT !.op = "detectAgent", !.arg = Str(DetectId),
                            !.result = DetectAgent(Str(DetectId), storage)]
    /\ UNCHANGED <<calls, now, cache, insOrder, accOrder, storage, prev>>

NextDetect == DetectAgentCall

\* detectAgent alone
SpecDetect == InitDetect /\ [][NextDetect]_vars

----------------------------------------------------------------------------

(* extractFirstSentenceOrTruncate alone: texts and maximum lengths *)

\* a text longer than the default maximum length
LongText ==
    "Refactor the authentication module so that tokens are refreshed before they expire"

TruncateTexts ==
    {Undefined, Null, Num(5), Str(""), Str("  \n "),
     Str("Fix auth bug. Detail."),
     Str("Fix   the\n login   page"),
     Str("Refactor the authentication module now"),
     Str("Supercalifragilistic expialidocious"),
     Str("Investigate why the cache evicts early. Then fix it!"),
     Str(".hidden files"),
     Str("What? No"),
     Str("abcdefghijklmnopqrstuvwxyz"),
     Str(LongText)}

\* the maximum lengths tried, the default among them
TruncateLengths == {0, 1, 5, 8, 10, 13, 20, 38, DefaultMaxLength}

InitTruncate ==
    /\ now = 0
    /\ cache = <<>>
    /\ insOrder = <<>>
    /\ accOrder = <<>>
    /\ storage = InitialStorage
    /\ prev = NoPrev
    /\ calls = NoCalls
    /\ \E text \in TruncateTexts, maxLength \in TruncateLengths :
          last = [NoOp EXCEPT !.op = "text",
                              !.arg = [text |-> text, maxLength |-> maxLength]]

\* a call of extractFirstSentenceOrTruncate
TruncateCall ==
    /\ last.op = "text"
    /\ last' = [last EXCEPT
                  !.op = "truncate",
                  !.result = Str(ExtractFirstSentenceOrTruncate(last.arg.text,
                                                                last.arg.maxLength))]
    /\ UNCHANGED <<calls, now, cache, insOrder, accOrder, storage, prev>>

NextTruncate == TruncateCall

SpecTruncate == InitTruncate /\ [][NextTruncate]_vars

----------------------------------------------------------------------------

(* The extractors alone: two message files in either listing order *)

OrderId == "ses_o"

\* the two message files, and the message each one holds
OrderNames == {"msg_001.json", "msg_002.json"}
OrderMessageId(name) == IF name = "msg_001.json" THEN "msg_o1" ELSE "msg_o2"
OrderRoles == {"user", "assistant"}

\* time.created is missing, or one of two values
OrderCreated == {Undefined, Num(1), Num(2)}

OrderFiles ==
    {File(name, Json(MessageFile(OrderMessageId(name), role, Undefined, created))) :
        name \in OrderNames, role \in OrderRoles, created \in OrderCreated}

\* the directory lists both files, in one order or the other
OrderDirs ==
    {Dir(<<pair[1], pair[2]>>) :
        pair \in {x \in OrderFiles \X OrderFiles : x[1].name # x[2].name}}

\* the text of the one part of each message
OrderText(id) == IF id = "msg_o1" THEN "First request." ELSE "Second request."

OrderParts ==
    [id \in {OrderMessageId(name) : name \in OrderNames} |->
        Dir(<<File("prt_001.json", Json(PartFile("text", OrderText(id))))>>)]

InitOrder ==
    /\ now = 0
    /\ cache = <<>>
    /\ insOrder = <<>>
    /\ accOrder = <<>>
    /\ \E dir \in OrderDirs :
          storage = [session |-> MissingDir,
                     message |-> [id \in {OrderId} |-> dir],
                     part |-> OrderParts]
    /\ prev = NoPrev
    /\ calls = NoCalls
    /\ last = [NoOp EXCEPT !.op = "messages"]

\* a call of extractSemanticTitle
ExtractTitleCall ==
    /\ last.op = "messages"
    /\ last' = [last EXCEPT !.op = "extractTitle", !.arg = Str(OrderId),
                            !.result = ExtractSemanticTitle(Str(OrderId), storage)]
    /\ UNCHANGED <<calls, now, cache, insOrder, accOrder, storage, prev>>

\* a call of extractSessionDescription
ExtractDescriptionCall ==
    /\ last.op = "messages"
    /\ last' = [last EXCEPT !.op = "extractDescription", !.arg = Str(OrderId),
                            !.result = ExtractSessionDescription(Str(OrderId), storage)]
    /\ UNCHANGED <<calls, now, cache, insOrder, accOrder, storage, prev>>

\* a call of extractCurrentTask
ExtractTaskCall ==
    /\ last.op = "messages"
    /\ last' = [last EXCEPT !.op = "extractTask", !.arg = Str(OrderId),
                            !.result = ExtractCurrentTask(Str(OrderId), storage)]
    /\ UNCHANGED <<calls, now, cache, insOrder, accOrder, storage, prev>>

NextOrder == ExtractTitleCall \/ ExtractDescriptionCall \/ ExtractTaskCall

SpecOrder == InitOrder /\ [][NextOrder]_vars

----------------------------------------------------------------------------

(* Calls in flight.  An async function runs without interruption from the  *)
(* completion of the file-system operation it awaits to the next operation *)
(* it starts: the continuations of an await run as microtasks, before the  *)
(* completion of any other operation is handled.  A step of a call is      *)
(* therefore: the readdir or readFile it awaits completes, with what the   *)
(* storage holds at that moment, and the call runs on to its next readdir  *)
(* or readFile, or to its return.                                          *)

\* detectAgent, lines 23-27: the msg_*.json names of a listing, sorted
MessageFileNames(dir) ==
    SortStrings(SelectSeq([i \in 1..Len(dir.entries) |-> dir.entries[i].name],
                          LAMBDA f : MatchesPattern(f, "msg_")))

\* detectAgent, lines 33-47: readFile of the named file in the directory as it
\* is now, JSON.parse, message.agent || 'general', normalised; 'general' when
\* anything throws
AgentOfFile(dir, name) ==
    IF ~dir.ok \/ ~\E i \in 1..Len(dir.entries) : dir.entries[i].name = name
    THEN General
    ELSE LET content == FileNamed(dir.entries, name).content
             message == content.json
             agent == IF IsObject(message) THEN JsOr(message.agent, General) ELSE General
         IN IF content.kind # "json" THEN General
            ELSE IF message.t = "null" THEN General
            ELSE Str(Trim(ToLowerCase(JsToString(agent))))

\* the message files of ses_a when only its first message was written:
\* msg_002.json is there, msg_001.json is not yet
MessagesEarly ==
    [message |-> [id \in DOMAIN Messages1.message |->
                     IF id = "ses_a"
                     THEN Dir(<<Messages1.message[id].entries[1]>>)
                     ELSE Messages1.message[id]],
     part |-> Messages1.part]

OverlapTrees == {MessagesEarly, Messages1}

\* the position of a call among the calls in flight that have a rank
RankAmong(field) == 1 + Cardinality({d \in Callers : calls[d][field] > 0})

\* enrichSessionAgent, lines 400-407: the detected agent is cached and the
\* call returns
AgentDetected(c, detectedAgent, op) ==
    \E cs \in {CsSet(CacheState, calls[c].key, detectedAgent, now)} :
       /\ cache' = cs.c
       /\ insOrder' = cs.ins
       /\ accOrder' = cs.acc
       /\ calls' = [calls EXCEPT
                      ![c].pc = "done",
                      ![c].session = [calls[c].session EXCEPT !.agent = detectedAgent],
                      ![c].value = detectedAgent,
                      ![c].readRank = IF @ = 0 THEN RankAmong("readRank") ELSE @,
                      ![c].doneRank = RankAmong("doneRank")]
       /\ last' = [Before(op) EXCEPT !.key = calls[c].key, !.value = detectedAgent,
                                     !.extracted = TRUE]

\* a caller calls enrichSessionAgent (lines 384-398): the cache is read; on a
\* hit the call returns, on a miss detectAgent starts and awaits readdir
CallEnrichAgent(c) ==
    /\ calls[c].kind = "none"
    /\ \E session \in AgentInputs :
         \E key \in {AgentCacheKey(session)} :
           \E cachedAgent \in {CacheGetResult(cache, key, now)},
              cs \in {CsGet(CacheState, key, now)} :
              /\ cache' = cs.c
              /\ insOrder' = cs.ins
              /\ accOrder' = cs.acc
              /\ calls' = [calls EXCEPT ![c] =
                             IF cachedAgent # Undefined
                             THEN [NoCall EXCEPT
                                     !.kind = "agent", !.pc = "done", !.key = key,
                                     !.session = [session EXCEPT !.agent = cachedAgent],
                                     !.value = cachedAgent,
                                     !.doneRank = RankAmong("doneRank")]
                             ELSE [NoCall EXCEPT
                                     !.kind = "agent", !.pc = "messageDir", !.key = key,
                                     !.session = session]]
              /\ last' = [Before("callAgent") EXCEPT !.key = key, !.arg = session,
                                                     !.result = cachedAgent]
    /\ prev' = NoPrev
    /\ UNCHANGED <<now, storage>>

\* the readdir of detectAgent completes (lines 17-31): without a directory or
\* without message files the agent is 'general'; else the first file is read
ListMessages(c) ==
    /\ calls[c].kind = "agent"
    /\ calls[c].pc = "messageDir"
    /\ \E dir \in {MessageDir(storage, calls[c].session.id.s)} :
         IF ~dir.ok \/ MessageFileNames(dir) = <<>>
         THEN AgentDetected(c, General, "listMessages")
         ELSE /\ calls' = [calls EXCEPT ![c].pc = "messageFile",
                                        ![c].names = MessageFileNames(dir),
                                        ![c].readRank = RankAmong("readRank")]
              /\ last' = [Before("listMessages") EXCEPT !.key = calls[c].key]
              /\ UNCHANGED <<cache, insOrder, accOrder>>
    /\ prev' = NoPrev
    /\ UNCHANGED <<now, storage>>

\* the readFile of detectAgent completes (lines 33-42), for the file that was
\* first in the listing the call holds
ReadMessage(c) ==
    /\ calls[c].kind = "agent"
    /\ calls[c].pc = "messageFile"
    /\ AgentDetected(c, AgentOfFile(MessageDir(storage, calls[c].session.id.s),
                                    calls[c].names[1]),
                     "readMessage")
    /\ prev' = NoPrev
    /\ UNCHANGED <<now, storage>>

\* the callers take their results: no call is in flight any more
Settle ==
    /\ \A c \in Callers : calls[c].pc \in {"idle", "done"}
    /\ \E c \in Callers : calls[c].pc = "done"
    /\ calls' = NoCalls
    /\ last' = Before("settle")
    /\ prev' = NoPrev
    /\ UNCHANGED <<now, cache, insOrder, accOrder, storage>>

\* the process that writes the messages adds or removes msg_001.json
RewriteMessages ==
    /\ \E m \in OverlapTrees :
         /\ m.message # storage.message
         /\ storage' = [storage EXCEPT !.message = m.message, !.part = m.part]
    /\ last' = Before("mutate")
    /\ prev' = NoPrev
    /\ UNCHANGED <<now, cache, insOrder, accOrder, calls>>

InitOverlap ==
    /\ now = 0
    /\ cache = <<>>
    /\ insOrder = <<>>
    /\ accOrder = <<>>
    /\ storage = [session |-> SessionTree3, message |-> MessagesEarly.message,
                  part |-> MessagesEarly.part]
    /\ prev = NoPrev
    /\ calls = NoCalls
    /\ last = NoOp

NextOverlap ==
    \/ Tick
    \/ RewriteMessages
    \/ \E c \in Callers : CallEnrichAgent(c)
    \/ \E c \in Callers : ListMessages(c)
    \/ \E c \in Callers : ReadMessage(c)
    \/ Settle

\* two callers of enrichSessionAgent over one cache, while the messages change
SpecOverlap == InitOverlap /\ [][NextOverlap]_vars

----------------------------------------------------------------------------

(* discoverSessions as a call in flight.  p and f are the positions of the *)
(* call in the listing of <storageRoot>/session and in the listing of the  *)
(* project directory; the session tree does not change while calls are in  *)
(* flight, so the listings a call holds are those of the storage.          *)

\* the listing of the project directory a call is in
FilesOf(c, st) == st.session.entries[c.p].dir.entries

\* the head of the loop over the projects (lines 36-46), and the return
\* (lines 115-116): the call skips to the next directory it has to list
RECURSIVE NextProject(_, _, _)
NextProject(c, cs, st) ==
    IF c.p > Len(st.session.entries)
    THEN [call |-> [c EXCEPT !.pc = "done", !.result = SortByUpdated(c.sessions)], cs |-> cs]
    ELSE IF SkipsProject(st.session.entries[c.p])
    THEN NextProject([c EXCEPT !.p = @ + 1], cs, st)
    ELSE [call |-> [c EXCEPT !.pc = "projectDir"], cs |-> cs]

\* the head of the loop over the files (lines 47-49): the call skips to the
\* next ses_*.json file and reads it
RECURSIVE NextFile(_, _, _)
NextFile(c, cs, st) ==
    IF c.f > Len(FilesOf(c, st))
    THEN NextProject([c EXCEPT !.p = @ + 1, !.f = 0], cs, st)
    ELSE IF ~MatchesPattern(FilesOf(c, st)[c.f].name, "ses_")
    THEN NextFile([c EXCEPT !.f = @ + 1], cs, st)
    ELSE [call |-> [c EXCEPT !.pc = "sessionFile"], cs |-> cs]

\* lines 103-108: the description follows the title, the session is pushed,
\* and the loop goes on
PushAndGoOn(c, cs, st) ==
    NextFile([c EXCEPT !.sessions = Append(@, ResetDescription(c.session,
                                                               c.session.isSubagent)),
                       !.times = Append(@, c.t),
                       !.session = <<>>, !.key = "", !.names = <<>>,
                       !.f = @ + 1],
             cs, st)

\* line 101, enrichSessionTitle up to its await (lines 418-441): a title that
\* is not generic is kept, a cached title is used, else extraction starts
TitlePhase(c, cs, st, t) ==
    IF ~IsGenericTitle(c.session.title)
    THEN PushAndGoOn(c, cs, st)
    ELSE The({The({IF cachedTitle # Undefined
                   THEN PushAndGoOn([c EXCEPT !.session.title =
                                                 TitleOnHit(cachedTitle, c.session.title)],
                                    afterGet, st)
                   ELSE [call |-> [c EXCEPT !.pc = "title"], cs |-> afterGet] :
                   cachedTitle \in {CacheGetResult(cs.c, cacheKey, t)},
                   afterGet \in {CsGet(cs, cacheKey, t)}}) :
              cacheKey \in {TitleCacheKey(c.session)}})

\* lines 51-98: the readFile of a session file completes at time t; the base
\* session is built and, unless it is a subagent's, enrichSessionAgent runs
\* up to its await (lines 384-398)
FileRead(c, cs, st, t) ==
    IF \/ FilesOf(c, st)[c.f].content.kind # "json"
       \/ BaseSessionThrows(FilesOf(c, st)[c.f].content.json)
    THEN NextFile([c EXCEPT !.f = @ + 1], cs, st)
    ELSE The({IF base.isSubagent
              THEN TitlePhase([c EXCEPT !.t = t, !.session = base], cs, st, t)
              ELSE The({The({IF cachedAgent # Undefined
                             THEN TitlePhase([c EXCEPT !.t = t,
                                                       !.session = [base EXCEPT
                                                                      !.agent = cachedAgent]],
                                             afterGet, st, t)
                             ELSE [call |-> [c EXCEPT !.t = t, !.session = base,
                                                      !.key = cacheKey,
                                                      !.pc = "messageDir"],
                                   cs |-> afterGet] :
                             cachedAgent \in {CacheGetResult(cs.c, cacheKey, t)},
                             afterGet \in {CsGet(cs, cacheKey, t)}}) :
                        cacheKey \in {AgentCacheKey(base)}}) :
              base \in {BaseSessionTable[FilesOf(c, st)[c.f].content.json, t]}})

\* variant: the detected agent is cached but the session keeps the agent it had
AgentSet_NotApplied(c, cs, st, t, detectedAgent) ==
    TitlePhase(c, CsSet(cs, c.key, detectedAgent, t), st, t)

\* enrichSessionAgent after its await (lines 400-407), and the call goes on
\* with enrichSessionTitle
AgentSet(c, cs, st, t, detectedAgent) ==
    TitlePhase([c EXCEPT !.session.agent = detectedAgent,
                         !.overwrote = @ \/ c.key \in SeqKeys(cs.c)],
               CsSet(cs, c.key, detectedAgent, t), st, t)

\* enrichSessionTitle after its await (lines 443-449), and the call goes on
TitleSet(c, cs, st, t, semanticTitle) ==
    PushAndGoOn([c EXCEPT !.session.title = TitleOnMiss(semanticTitle, c.session.title),
                          !.overwrote = @ \/ TitleCacheKey(c.session) \in SeqKeys(cs.c)],
                CsSet(cs, TitleCacheKey(c.session), semanticTitle, t), st)

\* a step of a discoverSessions call: the call and the cache become r
Stepped(c, op, r) ==
    /\ cache' = r.cs.c
    /\ insOrder' = r.cs.ins
    /\ accOrder' = r.cs.acc
    /\ calls' = [calls EXCEPT ![c] = r.call]
    /\ last' = [Before(op) EXCEPT !.key = calls[c].key]
    /\ prev' = NoPrev
    /\ UNCHANGED <<now, storage>>

\* a caller calls discoverSessions (lines 25-31): readdir of
\* <storageRoot>/session is awaited
CallDiscover(c) ==
    /\ calls[c].kind = "none"
    /\ Stepped(c, "callDiscover",
               [call |-> [NoCall EXCEPT !.kind = "discover", !.pc = "sessionDir"],
                cs |-> CacheState])

\* lines 31-34: the readdir of <storageRoot>/session completes
SessionDirListed(c) ==
    /\ calls[c].kind = "discover"
    /\ calls[c].pc = "sessionDir"
    /\ \E r \in {IF ~storage.session.ok
                 THEN [call |-> [calls[c] EXCEPT !.pc = "done"], cs |-> CacheState]
                 ELSE NextProject([calls[c] EXCEPT !.p = 1], CacheState, storage)} :
          Stepped(c, "listSessionDir", r)

\* lines 40-45: the readdir of a project directory completes
ProjectDirListed(c) ==
    /\ calls[c].kind = "discover"
    /\ calls[c].pc = "projectDir"
    /\ \E r \in {IF ~storage.session.entries[calls[c].p].dir.ok
                 THEN NextProject([calls[c] EXCEPT !.p = @ + 1], CacheState, storage)
                 ELSE NextFile([calls[c] EXCEPT !.f = 1], CacheState, storage)} :
          Stepped(c, "listProjectDir", r)

\* line 51: the readFile of a session file completes
SessionFileRead(c) ==
    /\ calls[c].kind = "discover"
    /\ calls[c].pc = "sessionFile"
    /\ \E r \in {FileRead(calls[c], CacheState, storage, now)} :
          Stepped(c, "readSessionFile", r)

\* the readdir of detectAgent completes (lines 17-31)
SessionMessagesListed(c) ==
    /\ calls[c].kind = "discover"
    /\ calls[c].pc = "messageDir"
    /\ \E dir \in {MessageDir(storage, calls[c].session.id.s)} :
         \E r \in {IF ~dir.ok \/ MessageFileNames(dir) = <<>>
                   THEN AgentSet(calls[c], CacheState, storage, now, General)
                   ELSE [call |-> [calls[c] EXCEPT !.pc = "messageFile",
                                                   !.names = MessageFileNames(dir)],
                         cs |-> CacheState]} :
            Stepped(c, "listMessages", r)

\* the readFile of detectAgent completes (lines 33-47)
SessionMessageRead(c) ==
    /\ calls[c].kind = "discover"
    /\ calls[c].pc = "messageFile"
    /\ \E r \in {AgentSet(calls[c], CacheState, storage, now,
                          AgentOfFile(MessageDir(storage, calls[c].session.id.s),
                                      calls[c].names[1]))} :
          Stepped(c, "readMessage", r)

\* extractSemanticTitle returns (lines 92-162); its reads are taken together
SessionTitleExtracted(c) ==
    /\ calls[c].kind = "discover"
    /\ calls[c].pc = "title"
    /\ \E r \in {TitleSet(calls[c], CacheState, storage, now,
                          ExtractSemanticTitleTable[storage, calls[c].session.id])} :
          Stepped(c, "extractTitle", r)

InitConcurrent ==
    /\ now = 0
    /\ cache = <<>>
    /\ insOrder = <<>>
    /\ accOrder = <<>>
    /\ storage = [session |-> SessionTree1, message |-> Messages1.message,
                  part |-> Messages1.part]
    /\ prev = NoPrev
    /\ calls = NoCalls
    /\ last = NoOp

NextConcurrent ==
    \/ Tick
    \/ \E c \in Callers : CallDiscover(c)
    \/ \E c \in Callers : SessionDirListed(c)
    \/ \E c \in Callers : ProjectDirListed(c)
    \/ \E c \in Callers : SessionFileRead(c)
    \/ \E c \in Callers : SessionMessagesListed(c)
    \/ \E c \in Callers : SessionMessageRead(c)
    \/ \E c \in Callers : SessionTitleExtracted(c)
    \/ Settle

\* two callers of discoverSessions over one cache and one unchanged tree
SpecConcurrent == InitConcurrent /\ [][NextConcurrent]_vars

----------------------------------------------------------------------------

(* Claims about the cache *)

Age(e) == now - e.timestamp

\* the set that produced this state found the store full of unexpired entries and a new key
C1_Case ==
    /\ last.op = "set"
    /\ Len(last.pre) = maxSize
    /\ \A i \in 1..Len(last.pre) : Age(last.pre[i]) <= ttlMs
    /\ last.key \notin SeqKeys(last.pre)

C2_Case ==
    /\ last.op = "set"
    /\ Len(last.pre) = maxSize
    /\ last.key \in SeqKeys(last.pre)

\* C2: a set of a key that is already stored, on a store at capacity, evicts
\* nothing: size() is unchanged, every key retrievable before is retrievable
\* after, and the key maps to the new value.
C2_OverwriteEvictsNothing ==
    C2_Case =>
        /\ CacheSize(cache) = CacheSize(last.pre)
        /\ \A k \in SeqKeys(last.pre) :
             CacheGetResult(last.pre, k, now) # Undefined
                => CacheGetResult(cache, k, now) # Undefined
        /\ CacheGetResult(cache, last.key, now) = last.value

\* the get that produced this state read a stored key
C3_Case == last.op = "get" /\ last.key \in SeqKeys(last.pre)

\* C3: a get returns the stored value while the entry's age is at most the
\* TTL and leaves the store alone; once the age exceeds the TTL it returns
\* absent and removes the entry (size drops by one), and a get of a key that
\* is not stored returns absent.
C3_Expiry ==
    /\ (C3_Case /\ Age(MapGet(last.pre, last.key)) <= ttlMs) =>
          /\ last.result = MapGet(last.pre, last.key).value
          /\ cache = last.pre
    /\ (C3_Case /\ Age(MapGet(last.pre, last.key)) > ttlMs) =>
          /\ last.result = Undefined
          /\ last.key \notin SeqKeys(cache)
          /\ CacheSize(cache) = CacheSize(last.pre) - 1
    /\ (last.op = "get" /\ last.key \notin SeqKeys(last.pre)) =>
          /\ last.result = Undefined
          /\ cache = last.pre

\* C3 witness: a read found the entry expired and removed it
C3_Witness ==
    /\ C3_Case
    /\ Age(MapGet(last.pre, last.key)) > ttlMs
    /\ last.result = Undefined
    /\ CacheSize(cache) = CacheSize(last.pre) - 1

\* C4: size() <= maxSize after every operation.
C4_CapacityBound == CacheSize(cache) <= maxSize

\* C4 witness: a set on a full store has acted
C4_Witness == last.op = "set" /\ Len(last.pre) = maxSize /\ CacheSize(cache) = maxSize

----------------------------------------------------------------------------
(* Claims about the enrichers *)

EnrichOps == {"enrichAgent", "enrichTitle"}

\* the cache key an enricher uses for a session, and what its extractor
\* returns for the session on the current tree
KeyFor(op, session) ==
    IF op = "enrichAgent" THEN AgentCacheKey(session) ELSE TitleCacheKey(session)

ExtractedNow(op, session) ==
    IF op = "enrichAgent"
    THEN DetectAgentTable[storage, session.id]
    ELSE ExtractSemanticTitleTable[storage, session.id]

\* the session an enricher returns when the enrichment value is v
EnrichedWith(op, session, v) ==
    IF op = "enrichAgent"
    THEN [session EXCEPT !.agent = v]
    ELSE [session EXCEPT !.title = JsOr(v, session.title)]

\* the two versions of the session ses_a, in both orders
Updates == {<<RawA, RawA2>>, <<RawA2, RawA>>}

\* the enricher call that produced this state was for the second version of
\* a session while the store held the entry of the first version
C5_Case(first, second) ==
    /\ last.op \in EnrichOps
    /\ last.arg = BaseSessionTable[second, now]
    /\ KeyFor(last.op, BaseSessionTable[first, now]) \in SeqKeys(last.pre)

\* C5 as stated: a call for a session whose other version is cached, and whose
\* own version is not, runs the extractor on the current tree and the store
\* then holds the entries of both versions.
C5_BothEntriesHeld ==
    \A u \in Updates :
        (C5_Case(u[1], u[2]) /\ last.key \notin SeqKeys(last.pre)) =>
            /\ last.extracted
            /\ last.out = EnrichedWith(last.op, last.arg, ExtractedNow(last.op, last.arg))
            /\ KeyFor(last.op, BaseSessionTable[u[1], now]) \in SeqKeys(cache)
            /\ last.key \in SeqKeys(cache)

\* C5: the two versions of a session have different keys; a call for one
\* version never reads the other's entry: unless an unexpired entry of its own
\* key is stored, it runs the extractor on the current tree and stores the
\* result under its own key with the current time; the other version's entry
\* stays in the store unless the store was full and that entry was its oldest.
C5_TimestampKeyed ==
    \A u \in Updates :
        C5_Case(u[1], u[2]) =>
            LET k1 == KeyFor(last.op, BaseSessionTable[u[1], now])
                k2 == KeyFor(last.op, last.arg)
                own == CacheGetResult(last.pre, k2, now)
            IN /\ k1 # k2
               /\ last.key = k2
               /\ own = Undefined =>
                    /\ last.extracted
                    /\ last.out = EnrichedWith(last.op, last.arg,
                                               ExtractedNow(last.op, last.arg))
                    /\ MapGet(cache, k2) = [key |-> k2,
                                            value |-> ExtractedNow(last.op, last.arg),
                                            timestamp |-> now]
               /\ own # Undefined =>
                    /\ ~last.extracted
                    /\ last.out = EnrichedWith(last.op, last.arg, own)
               /\ k1 \notin SeqKeys(cache) =>
                    /\ own = Undefined
                    /\ Len(last.pre) >= maxSize
                    /\ last.pre[1].key = k1

\* C5 witness: the second version was extracted afresh and differs from the
\* cached value of the first version, and both entries are stored
C5_Witness ==
    /\ C5_Case(RawA, RawA2)
    /\ last.extracted
    /\ KeyFor(last.op, BaseSessionTable[RawA, now]) \in SeqKeys(cache)
    /\ MapGet(cache, KeyFor(last.op, BaseSessionTable[RawA, now])).value
         # MapGet(cache, last.key).value

\* the enricher call that produced this state found an unexpired entry under its key
C6_Case ==
    /\ last.op \in EnrichOps
    /\ last.key \in SeqKeys(last.pre)
    /\ ~Expired(MapGet(last.pre, last.key), now)

\* C6: an enricher call that finds an unexpired entry under its key does not
\* run the extractor, leaves the store as it was (size included) and returns
\* the session enriched with the stored value, as the call that stored it did.
C6_CacheHit ==
    C6_Case =>
        /\ ~last.extracted
        /\ cache = last.pre
        /\ CacheSize(cache) = CacheSize(last.pre)
        /\ last.out = EnrichedWith(last.op, last.arg, MapGet(last.pre, last.key).value)

\* C6 witness: a hit returned the stored value although the tree now yields another
C6_Witness ==
    /\ C6_Case
    /\ ~last.extracted
    /\ ExtractedNow(last.op, last.arg) # MapGet(last.pre, last.key).value
    /\ last.out # EnrichedWith(last.op, last.arg, ExtractedNow(last.op, last.arg))

----------------------------------------------------------------------------
(* Claims about discoverSessions *)

\* the ids of the sessions the last call returned
ReturnedIds == {last.disc.sessions[i].id : i \in 1..Len(last.disc.sessions)}

\* the directories of <storageRoot>/session whose listing can be read, by position
ReadableProjects ==
    IF storage.session.ok
    THEN {p \in 1..Len(storage.session.entries) :
            /\ storage.session.entries[p].isDirectory
            /\ storage.session.entries[p].dir.ok}
    ELSE {}

\* the session files of a directory that can be read, parsed and shaped into a session
Parseable(p) ==
    LET files == storage.session.entries[p].dir.entries
    IN {f \in 1..Len(files) :
            /\ MatchesPattern(files[f].name, "ses_")
            /\ files[f].content.kind = "json"
            /\ ~BaseSessionThrows(files[f].content.json)}

ParseableFiles == UNION {{<<p, f>> : f \in Parseable(p)} : p \in ReadableProjects}

FileId(pf) == storage.session.entries[pf[1]].dir.entries[pf[2]].content.json.id

\* C7 as stated: a call returns a list, whatever the tree; the files that fail
\* contribute nothing, and every file that parses in a readable directory is in it.
C7_NoErrorSiblingsAppear ==
    last.op = "discover" =>
        /\ ~last.disc.threw
        /\ Len(last.disc.sessions) = Cardinality(ParseableFiles)
        /\ \A pf \in ParseableFiles : FileId(pf) \in ReturnedIds

\* C8 as stated: every session file that parses in the directory named
\* "global" is in the returned list.
C8_GlobalIncluded ==
    last.op = "discover" =>
        \A pf \in ParseableFiles :
            storage.session.entries[pf[1]].name = "global" => FileId(pf) \in ReturnedIds

\* a session without the fields that depend on the clock
TimeFree(session) == [session EXCEPT !.ageMinutes = 0, !.status = 0, !.phase = 0]

\* the call that produced this state follows another call on the same tree
C9_Case == last.op = "discover" /\ last.prev.valid

\* C9 as stated: two successive calls within the same clock minute on an
\* unchanged tree return identical lists.
C9_SameMinuteIdentical ==
    (C9_Case /\ last.prev.now \div MsPerMinute = now \div MsPerMinute) =>
        last.disc.sessions = last.prev.sessions

\* C9: when every entry the cache held before the first call is what its
\* extractor returns on the tree, two successive calls on the unchanged tree
\* return the same sessions in the same order with the same fields except
\* ageMinutes, status and phase, and these too when the clock has not advanced.
C9_Idempotent ==
    (C9_Case /\ last.prev.derivable) =>
        /\ Len(last.disc.sessions) = Len(last.prev.sessions)
        /\ \A i \in 1..Len(last.disc.sessions) :
             TimeFree(last.disc.sessions[i]) = TimeFree(last.prev.sessions[i])
        /\ last.prev.now = now => last.disc.sessions = last.prev.sessions

\* C9 witness: the second call took every enrichment field from the cache
C9_Witness ==
    /\ C9_Case
    /\ last.prev.derivable
    /\ last.prev.now = now
    /\ last.disc.sessions # <<>>
    /\ last.pre # <<>>
    /\ cache = last.pre
    /\ last.disc.sessions = last.prev.sessions

\* C10: every session a call pushes for a title with the subagent marker
\* keeps the agent captured from the marker, whatever the message files and
\* the cache hold; the returned list holds these sessions, and
\* enrichSessionAgent is called for no session with isSubagent = true.
C10_SubagentIdentityKept ==
    last.op = "discover" =>
        /\ Len(last.disc.unsorted) = Len(last.disc.bases)
        /\ \A i \in 1..Len(last.disc.bases) :
             last.disc.bases[i].isSubagent =>
                /\ last.disc.unsorted[i].isSubagent
                /\ last.disc.unsorted[i].agent
                     = Str(SubagentMatch(last.disc.bases[i].title.s))
        /\ \A i \in 1..Len(last.disc.unsorted) :
             \E j \in 1..Len(last.disc.sessions) :
                last.disc.sessions[j] = last.disc.unsorted[i]
        /\ \A i \in 1..Len(last.disc.agentCalls) : ~last.disc.agentCalls[i].isSubagent

\* C10 witness: a subagent session was returned with its marker's agent while
\* the cache held an agent entry for it and its messages name another agent
C10_Witness ==
    /\ last.op = "discover"
    /\ \E i \in 1..Len(last.disc.sessions) :
         /\ last.disc.sessions[i].isSubagent
         /\ last.disc.sessions[i].agent = Str("coder")
         /\ AgentCacheKey(last.disc.sessions[i]) \in SeqKeys(last.pre)
         /\ DetectAgentTable[storage, last.disc.sessions[i].id] = Str("explore")

----------------------------------------------------------------------------
(* Claims about the derived fields of a session *)

\* a file has been parsed with thresholds busyMinutes < staleMinutes
C11_Case ==
    /\ last.op = "parse"
    /\ last.arg.thresholds.busyMinutes < last.arg.thresholds.staleMinutes

\* C11: with thresholds b < s and a session of age a minutes, the status is
\* busy when a < b, idle when b <= a < s and stale when a >= s; exactly one of
\* the three applies.
C11_StatusClassification ==
    C11_Case =>
        LET a == last.out.ageMinutes
            b == last.arg.thresholds.busyMinutes
            s == last.arg.thresholds.staleMinutes
            applies == [x \in {"busy", "idle", "stale"} |->
                          CASE x = "busy" -> a < b
                            [] x = "idle" -> b <= a /\ a < s
                            [] x = "stale" -> a >= s]
        IN /\ last.out.status \in DOMAIN applies
           /\ applies[last.out.status]
           /\ Cardinality({x \in DOMAIN applies : applies[x]}) = 1

\* C11 witness: an age at the busy threshold, below the stale one, is idle
C11_Witness ==
    /\ C11_Case
    /\ last.out.ageMinutes = last.arg.thresholds.busyMinutes
    /\ last.out.ageMinutes > 0
    /\ last.out.status = "idle"

\* the keywords of each phase, and whether the title of the parsed file holds
\* one of them in any case of letters
ResearchKeywords == {"research", "explore", "investigate"}
PlanningKeywords == {"plan", "design", "phase"}
ImplementingKeywords == {"implement", "fix", "add"}
DoneKeywords == {"complete", "done", "verify"}

ParsedTitle == IF last.arg.raw.title.t = "string" THEN last.arg.raw.title.s ELSE ""

HasKeyword(keywords) == \E k \in keywords : Includes(ToLowerCase(ParsedTitle), k)

ParsedBusy == last.out.ageMinutes < last.arg.thresholds.busyMinutes

\* C12: the phase is research when the title holds a research keyword, else
\* planning when it holds a planning keyword, else implementing when the age
\* is below busyMinutes and it holds an implementing keyword, else done when it
\* holds a done keyword, else implementing when the age is below busyMinutes
\* and done otherwise; it is always one of the four.
C12_PhasePrecedence ==
    last.op = "parse" =>
        /\ last.out.phase \in {"research", "planning", "implementing", "done"}
        /\ last.out.phase =
             CASE HasKeyword(ResearchKeywords) -> "research"
               [] ~HasKeyword(ResearchKeywords) /\ HasKeyword(PlanningKeywords) -> "planning"
               [] OTHER ->
                    IF ParsedBusy /\ HasKeyword(ImplementingKeywords) THEN "implementing"
                    ELSE IF HasKeyword(DoneKeywords) THEN "done"
                    ELSE IF ParsedBusy THEN "implementing"
                    ELSE "done"

\* C12 witness: an implementing keyword does not count at an age of busyMinutes
\* or more, so the done keyword behind it decides
C12_Witness ==
    /\ last.op = "parse"
    /\ HasKeyword(ImplementingKeywords)
    /\ HasKeyword(DoneKeywords)
    /\ ~HasKeyword(ResearchKeywords) /\ ~HasKeyword(PlanningKeywords)
    /\ ~ParsedBusy
    /\ last.arg.thresholds.busyMinutes > 0
    /\ last.out.phase = "done"

\* the ends of the text "@<word><spaces>subagent" (any case of letters) that
\* begins with the "@" at position i of s: empty when there is none
MarkerEnds(s, i) ==
    IF CharAt(s, i) # "@" THEN {}
    ELSE {se + 8 : se \in {x \in (i + 2)..Len(s) :
                     /\ ToLowerCase(Substr(s, x + 1, x + 8)) = "subagent"
                     /\ \E we \in (i + 1)..(x - 1) :
                          /\ \A y \in (i + 1)..we : IsWord(CharAt(s, y))
                          /\ \A y \in (we + 1)..x : IsSpace(CharAt(s, y))}}

\* the positions of the "@" of every marker in s, and of those in parentheses
Markers(s) == {i \in 1..Len(s) : MarkerEnds(s, i) # {}}

InParentheses(s, i) ==
    /\ CharAt(s, i - 1) = "("
    /\ \E e \in MarkerEnds(s, i) : CharAt(s, e + 1) = ")"

\* the word between the "@" at i and the spaces that follow it
MarkerWord(s, i) ==
    Substr(s, i + 1, CHOOSE we \in i..Len(s) :
                        /\ \A y \in (i + 1)..we : IsWord(CharAt(s, y))
                        /\ ~IsWord(CharAt(s, we + 1)))

\* s without its first marker in parentheses and the spaces before it
WithoutFirstParenthesised(s) ==
    LET i == CHOOSE x \in Markers(s) :
                 InParentheses(s, x) /\ \A y \in Markers(s) : InParentheses(s, y) => x <= y
        e == CHOOSE x \in MarkerEnds(s, i) : TRUE
        p == CHOOSE x \in 1..(i - 1) :
                 /\ \A y \in x..(i - 2) : IsSpace(CharAt(s, y))
                 /\ ~IsSpace(CharAt(s, x - 1))
    IN Substr(s, 1, p - 1) \o Substr(s, e + 2, Len(s))

\* C13 as stated: a title with the marker "@<word> subagent" gives isSubagent,
\* the word as agent, and a description that no longer contains the marker; a
\* title without it gives isSubagent = false and the title as description.
C13_MarkerRemoved ==
    last.op = "parse" =>
        IF Markers(ParsedTitle) # {}
        THEN /\ last.out.isSubagent
             /\ \E i \in Markers(ParsedTitle) :
                  /\ \A j \in Markers(ParsedTitle) : i <= j
                  /\ last.out.agent = Str(MarkerWord(ParsedTitle, i))
             /\ Markers(last.out.description.s) = {}
        ELSE /\ ~last.out.isSubagent
             /\ last.out.description = Str(ParsedTitle)

\* C13: a title with the marker "@<word> subagent" gives isSubagent and the
\* word of the first marker as agent; the description is the trimmed title
\* without its first marker written in parentheses, "(@<word> subagent)", and
\* the spaces before it, or the trimmed title when no marker is in
\* parentheses: the description holds no marker when the title's only marker
\* is in parentheses.  A title without the marker gives isSubagent = false,
\* agent general and the title as description.
C13_ParenthesisedMarkerRemoved ==
    last.op = "parse" =>
        IF Markers(ParsedTitle) # {}
        THEN /\ last.out.isSubagent
             /\ \E i \in Markers(ParsedTitle) :
                  /\ \A j \in Markers(ParsedTitle) : i <= j
                  /\ last.out.agent = Str(MarkerWord(ParsedTitle, i))
             /\ last.out.description =
                  IF \E i \in Markers(ParsedTitle) : InParentheses(ParsedTitle, i)
                  THEN Str(Trim(WithoutFirstParenthesised(ParsedTitle)))
                  ELSE Str(Trim(ParsedTitle))
             /\ (/\ Cardinality(Markers(ParsedTitle)) = 1
                 /\ \A i \in Markers(ParsedTitle) : InParentheses(ParsedTitle, i))
                  => Markers(last.out.description.s) = {}
        ELSE /\ ~last.out.isSubagent
             /\ last.out.agent = General
             /\ last.out.description = Str(ParsedTitle)

\* C13 witness: the marker in parentheses, in capitals and after several
\* spaces, is removed with the spaces around it
C13_Witness ==
    /\ last.op = "parse"
    /\ ParsedTitle = "Review \t(@Build_2  SUBAGENT)  now "
    /\ last.out.isSubagent
    /\ last.out.agent = Str("Build_2")
    /\ last.out.description = Str("Review  now")

\* the parsed file carries a number as time.updated
C19_Case ==
    /\ last.op = "parse"
    /\ IsObject(last.arg.raw.time)
    /\ last.arg.raw.time.updated.t = "number"

\* the largest integer q with q * d <= n, by search: Math.floor(n / d) for d > 0
FloorOfQuotient(n, d) ==
    CHOOSE q \in (0 - (MaxMinutes + 4))..(MaxMinutes + 4) : q * d <= n /\ n < (q + 1) * d

\* C19 as stated: for a session whose file carries a valid time.updated, also
\* one later than the clock, ageMinutes = floor((now - updated) / 60000) and
\* ageMinutes >= 0.
C19_AgeNonNegative ==
    C19_Case =>
        /\ last.out.ageMinutes = FloorOfQuotient(now - last.arg.raw.time.updated.n, MsPerMinute)
        /\ last.out.ageMinutes >= 0

----------------------------------------------------------------------------
(* Claims about the list discoverSessions returns *)

\* C14: in every returned list, for all positions i < j,
\* sessions[i].updated >= sessions[j].updated, whatever the order in which the
\* directories and the files were listed.
C14_SortedByUpdated ==
    last.op = "discover" =>
        \A i, j \in 1..Len(last.disc.sessions) :
            i < j => last.disc.sessions[i].updated >= last.disc.sessions[j].updated

\* C14 witness: the session listed first, in the first directory, is returned
\* last, behind the session of the second directory
C14_Witness ==
    /\ last.op = "discover"
    /\ storage.session = SessionTree2
    /\ Len(last.disc.sessions) = 4
    /\ last.disc.unsorted[1] = last.disc.sessions[3]
    /\ last.disc.unsorted[3] = last.disc.sessions[2]
    /\ last.disc.sessions[2].updated > last.disc.sessions[3].updated

\* the session files the claim counts: directly in a directory of
\* <storageRoot>/session, named ses_*.json, holding JSON that parses
FilesThatParse ==
    UNION {{<<p, f>> : f \in {x \in 1..Len(storage.session.entries[p].dir.entries) :
                               LET file == storage.session.entries[p].dir.entries[x]
                               IN /\ MatchesPattern(file.name, "ses_")
                                  /\ file.content.kind = "json"}} :
           p \in ReadableProjects}

ParsedId(pf) == Field(storage.session.entries[pf[1]].dir.entries[pf[2]].content.json, "id")

\* C15 as stated: the returned list holds exactly one session for every file
\* that lies directly in a directory of <storageRoot>/session, is named
\* ses_*.json and parses, and nothing else.
C15_OneSessionPerFile ==
    last.op = "discover" =>
        /\ Len(last.disc.sessions) = Cardinality(FilesThatParse)
        /\ \A pf \in FilesThatParse :
             Cardinality({i \in 1..Len(last.disc.sessions) :
                             last.disc.sessions[i].id = ParsedId(pf)}) = 1

----------------------------------------------------------------------------
(* Claims about enrichSessionTitle and the frame of the enrichers *)

\* the title is a string that is not empty, does not start with
\* "New session - " and does not start with a date YYYY-MM-DD
NonGeneric(title) ==
    /\ title.t = "string"
    /\ title.s # ""
    /\ ~StartsWith(title.s, "New session - ")
    /\ ~(/\ Len(title.s) >= 10
         /\ \A i \in {1, 2, 3, 4, 6, 7, 9, 10} : IsDigit(CharAt(title.s, i))
         /\ CharAt(title.s, 5) = "-" /\ CharAt(title.s, 8) = "-")

C16_Case == last.op = "enrichTitle" /\ NonGeneric(last.arg.title)

\* C16: enrichSessionTitle on a title that is not generic returns the session
\* unchanged and neither reads nor writes the cache: the store, with its
\* expired entries, is as before, whatever the message files hold.
C16_NonGenericUntouched ==
    C16_Case =>
        /\ last.out = last.arg
        /\ ~last.extracted
        /\ cache = last.pre
        /\ CacheSize(cache) = CacheSize(last.pre)
        /\ insOrder = last.preIns
        /\ accOrder = last.preAcc

\* C16 witness: the store held an expired entry, which a read would have
\* met only under its own key, and holds it still; the session has messages
C16_Witness ==
    /\ C16_Case
    /\ \E i \in 1..Len(last.pre) : Expired(last.pre[i], now)
    /\ cache = last.pre
    /\ MessageDir(storage, last.arg.id.s).ok
    /\ last.out.title = Str("Build authentication system")

C17_Case == last.op = "enrichTitle" /\ ~NonGeneric(last.arg.title)

\* the value is a title: a string that is not empty
IsTitle(v) == v.t = "string" /\ v.s # ""

\* the unexpired entry the call found under its key, Undefined without one
C17_Cached == CacheGetResult(last.pre, TitleCacheKey(last.arg), now)

\* C17: enrichSessionTitle on a generic title returns the extracted semantic
\* title as title when the extraction yields one and the original title
\* otherwise, on the call that extracts and on a later call that is served
\* the cached "nothing extracted".
C17_SemanticOrOriginal ==
    C17_Case =>
        LET extractedTitle == ExtractSemanticTitle(last.arg.id, storage)
        IN /\ last.extracted <=> C17_Cached = Undefined
           /\ last.extracted =>
                last.out.title = IF IsTitle(extractedTitle) THEN extractedTitle
                                 ELSE last.arg.title
           /\ (~last.extracted /\ IsTitle(C17_Cached)) => last.out.title = C17_Cached
           /\ (~last.extracted /\ ~IsTitle(C17_Cached)) =>
                /\ C17_Cached = Null
                /\ last.out.title = last.arg.title

\* C17 witness: a call served the cached "nothing extracted" keeps the
\* original title although the tree would now yield a semantic one
C17_Witness ==
    /\ C17_Case
    /\ ~last.extracted
    /\ C17_Cached = Null
    /\ IsTitle(ExtractSemanticTitle(last.arg.id, storage))
    /\ last.out.title = GenericTitle

\* the enrichers and the one field each of them sets
TargetField ==
    [op \in {"enrichAgent", "enrichTitle", "enrichDescription", "enrichCurrentTask"} |->
        CASE op = "enrichAgent" -> "agent"
          [] op = "enrichTitle" -> "title"
          [] op = "enrichDescription" -> "detailedDescription"
          [] op = "enrichCurrentTask" -> "currentTask"]

C18_Case == last.op \in DOMAIN TargetField

\* C18: every enricher leaves the session object it was given as it was, and
\* returns a session with the same fields and values except, at most, its one
\* target field (agent, title, detailedDescription, currentTask), on a cache
\* hit and on a miss alike.
C18_OnlyTargetFieldChanges ==
    C18_Case =>
        /\ last.argAfter = last.arg
        /\ DOMAIN last.out \subseteq DOMAIN last.arg \cup {TargetField[last.op]}
        /\ \A f \in DOMAIN last.arg \ {TargetField[last.op]} :
             f \in DOMAIN last.out /\ last.out[f] = last.arg[f]

\* C18 witness: a call served from the cache returned the detailed description
\* in a field of its own, next to the unchanged description
C18_Witness ==
    /\ last.op = "enrichDescription"
    /\ ~last.extracted
    /\ last.key \in SeqKeys(last.pre)
    /\ "detailedDescription" \notin DOMAIN last.arg
    /\ last.argAfter = last.arg
    /\ last.out.detailedDescription = Str("Fix auth bug. Detail.")
    /\ last.out.description = last.arg.description
    /\ last.out.description # last.out.detailedDescription

----------------------------------------------------------------------------
(* Claims about detectAgent *)

\* the listing of the session's message directory, and the positions of its
\* msg_*.json files
DetectListing == MessageDir(storage, last.arg.s).entries

DetectMatching ==
    {i \in 1..Len(DetectListing) :
        StartsWith(DetectListing[i].name, "msg_") /\ EndsWith(DetectListing[i].name, ".json")}

\* the content of the msg_*.json file whose name is first in lexicographic order
DetectFirst ==
    DetectListing[CHOOSE i \in DetectMatching :
                     \A j \in DetectMatching \ {i} :
                         StringLess(DetectListing[i].name, DetectListing[j].name)].content

\* the directory is missing or has no msg_*.json file, or the first one is
\* unreadable or invalid JSON
DetectNoMessage ==
    \/ ~MessageDir(storage, last.arg.s).ok
    \/ DetectMatching = {}
    \/ DetectFirst.kind # "json"

\* the parsed first message has no agent field (or null in it)
DetectNoAgentField ==
    \/ ~IsObject(DetectFirst.json)
    \/ DetectFirst.json.agent \in {Undefined, Null}

\* the agent value as a string, in small letters and trimmed
NormalizedAgent(agent) ==
    Str(Trim(ToLowerCase(IF agent.t = "number" THEN NumberToString(agent.n) ELSE agent.s)))

----------------------------------------------------------------------------
(* Claims about what enrichment leaves of a discovered session *)

\* C21: every session discoverSessions returns with isSubagent = false has a
\* description equal to its title as enrichment left it: the semantic title
\* when one replaced a generic title, the cached title when the cache served
\* it, and undefined when the session file has no title.
C21_DescriptionIsTitle ==
    last.op = "discover" =>
        \A i \in 1..Len(last.disc.sessions) :
            ~last.disc.sessions[i].isSubagent =>
                last.disc.sessions[i].description = last.disc.sessions[i].title

\* C21 witness: the generic title of ses_a was replaced by the semantic title
\* the cache held before the call, and the description follows it
C21_Witness ==
    /\ last.op = "discover"
    /\ Len(last.disc.sessions) = 1
    /\ ~last.disc.sessions[1].isSubagent
    /\ CacheGetResult(last.pre, TitleCacheKey(last.disc.bases[1]), now) = Str("Fix auth bug.")
    /\ last.disc.bases[1].title = GenericTitle
    /\ last.disc.bases[1].description = GenericTitle
    /\ last.disc.sessions[1].title = Str("Fix auth bug.")
    /\ last.disc.sessions[1].description = Str("Fix auth bug.")

\* C21, the case of a session file without a title: title and description
\* are both undefined
C21_AbsentTitle ==
    /\ last.op = "discover"
    /\ \E i \in 1..Len(last.disc.sessions) :
         /\ last.disc.sessions[i].id = Str("ses_t")
         /\ last.disc.sessions[i].title = Undefined
         /\ last.disc.sessions[i].description = Undefined


----------------------------------------------------------------------------
(* Claims about the cached outcome of enrichSessionCurrentTask *)

\* the positions at which the store holds an entry for key k
EntriesFor(store, k) == {i \in 1..Len(store) : store[i].key = k}

\* C24: enrichSessionCurrentTask caches "no task found" as an outcome of its
\* own: a call whose extraction yields nothing leaves exactly one entry, with
\* value null, for its key; a call that finds such an entry unexpired returns
\* currentTask = null without extracting and leaves the store as it was; only
\* a key that is absent or expired makes the call extract.
C24_NullIsCached ==
    last.op = "enrichCurrentTask" =>
        /\ (last.extracted /\ last.out.currentTask = Null) =>
               /\ CacheGetResult(cache, last.key, now) = Null
               /\ Cardinality(EntriesFor(cache, last.key)) = 1
        /\ CacheGetResult(last.pre, last.key, now) = Null =>
               /\ ~last.extracted
               /\ last.out.currentTask = Null
               /\ cache = last.pre
               /\ Cardinality(EntriesFor(cache, last.key)) = 1
        /\ last.extracted <=> CacheGetResult(last.pre, last.key, now) = Undefined

\* C24 witness: the null cached before the messages were written is returned
\* although extraction would now find a task
C24_Witness ==
    /\ last.op = "enrichCurrentTask"
    /\ CacheGetResult(last.pre, last.key, now) = Null
    /\ ExtractCurrentTaskTable[storage, last.arg.id] # Null
    /\ ~last.extracted
    /\ last.out.currentTask = Null
    /\ Cardinality(EntriesFor(cache, last.key)) = 1


----------------------------------------------------------------------------
(* Claims about the staleness window of the enrichers' cache *)

\* C27: enrichSessionAgent and enrichSessionTitle look only at the entry
\* stored under the session's key, never at the files: while that entry is at
\* most one time-to-live old the call returns its value, whatever the message
\* and part files hold by now, and leaves the entry as it is; once the entry
\* has expired or has been evicted the call returns the value derived from the
\* current files and stores it with the current time.
C27_StalenessWindow ==
    (last.op \in EnrichOps /\ last.key # "") =>
        IF last.key \in SeqKeys(last.pre)
           /\ now - MapGet(last.pre, last.key).timestamp <= ttlMs
        THEN /\ ~last.extracted
             /\ last.out = EnrichedWith(last.op, last.arg, MapGet(last.pre, last.key).value)
             /\ MapGet(cache, last.key) = MapGet(last.pre, last.key)
        ELSE /\ last.extracted
             /\ last.out = EnrichedWith(last.op, last.arg, ExtractedNow(last.op, last.arg))
             /\ MapGet(cache, last.key) = [key |-> last.key,
                                           value |-> ExtractedNow(last.op, last.arg),
                                           timestamp |-> now]

\* C27 witness: the 'general' cached before the messages existed is served
\* exactly one time-to-live later, although the files now name another agent
C27_Witness ==
    /\ last.op = "enrichAgent"
    /\ last.key \in SeqKeys(last.pre)
    /\ now - MapGet(last.pre, last.key).timestamp = ttlMs
    /\ ~last.extracted
    /\ last.out.agent = General
    /\ ExtractedNow(last.op, last.arg) # General

\* C27, after the window: the entry cached before the messages existed has
\* expired, and the call returns the title the files now give
C27_AfterExpiry ==
    /\ last.op = "enrichTitle"
    /\ last.key \in SeqKeys(last.pre)
    /\ MapGet(last.pre, last.key).value = Null
    /\ now - MapGet(last.pre, last.key).timestamp > ttlMs
    /\ last.extracted
    /\ last.out.title = Str("Fix auth bug.")


----------------------------------------------------------------------------
(* Claims about the position of an overwritten key and about expired entries *)

\* the set that produced this state wrote a key that was already stored
C28_Case == last.op = "set" /\ last.key \in SeqKeys(last.pre)

\* C28 as stated: a set of a key that is already stored replaces the entry's
\* value and timestamp and leaves the key where it was in the eviction order:
\* every other key that is still stored is on the same side of it as before.
C28_OverwriteKeepsPosition ==
    C28_Case =>
        /\ MapGet(cache, last.key) = [key |-> last.key, value |-> last.value,
                                      timestamp |-> now]
        /\ \A k \in (SeqKeys(last.pre) \cap SeqKeys(cache)) \ {last.key} :
             (KeyIndex(last.pre, last.key) < KeyIndex(last.pre, k))
                <=> (KeyIndex(cache, last.key) < KeyIndex(cache, k))


\* the operation that produced this state was one of the cache's
C29_CacheOps == {"get", "set", "clear", "tick"}

\* C29: an entry older than the time-to-live leaves the store only by a get
\* of its own key, by a set that finds the store at capacity and the entry
\* oldest, or by clear; a get or a set of another key that does not evict it
\* leaves it exactly as it was, and size() counts it as long as it is stored.
C29_LazyExpiry ==
    last.op \in C29_CacheOps =>
        \A i \in 1..Len(last.pre) :
            Expired(last.pre[i], now) =>
                /\ last.pre[i].key \notin SeqKeys(cache) =>
                     \/ last.op = "get" /\ last.key = last.pre[i].key
                     \/ last.op = "set" /\ Len(last.pre) >= maxSize /\ i = 1
                     \/ last.op = "clear"
                /\ (last.pre[i].key \in SeqKeys(cache) /\ last.key # last.pre[i].key) =>
                     MapGet(cache, last.pre[i].key) = last.pre[i]
                /\ (last.op = "get" /\ last.key # last.pre[i].key) =>
                     /\ last.pre[i].key \in SeqKeys(cache)
                     /\ CacheSize(cache) >= 1
                /\ last.op = "tick" => cache = last.pre

\* C29 witness: a get of another key left an expired entry in a full store,
\* where size() still counts it
C29_Witness ==
    /\ last.op = "get"
    /\ \E i \in 1..Len(last.pre) :
         /\ Expired(last.pre[i], now)
         /\ last.pre[i].key # last.key
         /\ MapGet(cache, last.pre[i].key) = last.pre[i]
    /\ CacheSize(cache) = maxSize
    /\ last.result # Undefined


----------------------------------------------------------------------------
(* Claims about classification and enrichment *)

\* the title determinePhase is given for a session: title || ''
PhaseTitle(session) == IF Truthy(session.title) THEN session.title.s ELSE ""

\* C30: status, phase, isSubagent and ageMinutes of every session
\* discoverSessions pushes are those of the session built from the file
\* before enrichSessionAgent and enrichSessionTitle ran; the phase is the one
\* of the file's own title, also when enrichment replaced the title.
C30_ClassificationKept ==
    last.op = "discover" =>
        /\ Len(last.disc.unsorted) = Len(last.disc.bases)
        /\ \A i \in 1..Len(last.disc.unsorted) :
             /\ last.disc.unsorted[i].status = last.disc.bases[i].status
             /\ last.disc.unsorted[i].phase = last.disc.bases[i].phase
             /\ last.disc.unsorted[i].isSubagent = last.disc.bases[i].isSubagent
             /\ last.disc.unsorted[i].ageMinutes = last.disc.bases[i].ageMinutes
             /\ last.disc.unsorted[i].status
                  = DetermineStatus(last.disc.bases[i].ageMinutes, Thresholds)
             /\ last.disc.unsorted[i].phase
                  = DeterminePhase(PhaseTitle(last.disc.bases[i]),
                                   last.disc.bases[i].ageMinutes, Thresholds)

\* C30 witness: a generic title was replaced by a title that names the
\* research phase, and the session kept the phase of its original title
C30_Witness ==
    /\ last.op = "discover"
    /\ \E i \in 1..Len(last.disc.unsorted) :
         /\ IsGenericTitle(last.disc.bases[i].title)
         /\ last.disc.unsorted[i].title = Str("Explore the cache module")
         /\ DeterminePhase(PhaseTitle(last.disc.unsorted[i]),
                           last.disc.unsorted[i].ageMinutes, Thresholds) = "research"
         /\ last.disc.unsorted[i].phase = last.disc.bases[i].phase
         /\ last.disc.unsorted[i].phase # "research"


----------------------------------------------------------------------------
(* Claims about extractFirstSentenceOrTruncate *)

\* the text with its whitespace runs collapsed and its ends trimmed, "" for
\* what is not a string
CleanedText(text) == IF text.t = "string" THEN Trim(CollapseSpaces(text.s)) ELSE ""

\* the positions of the sentence terminators of s
TerminatorsOf(s) == {i \in 1..Len(s) : CharAt(s, i) \in {".", "!", "?"}}

\* the leading sentence of s: up to its first terminator, when at least one
\* other character precedes it; "" when there is none
LeadingSentence(s) ==
    IF TerminatorsOf(s) = {} THEN ""
    ELSE LET p == CHOOSE i \in TerminatorsOf(s) : \A j \in TerminatorsOf(s) : i <= j
         IN IF p >= 2 THEN SubSeq(s, 1, p) ELSE ""

\* the (0-based) position of the last space among the first n characters of s,
\* -1 when there is none
LastSpaceIn(s, n) ==
    LET at == {i \in 0..(n - 1) : i < Len(s) /\ CharAt(s, i + 1) = " "}
    IN IF at = {} THEN 0 - 1 ELSE CHOOSE i \in at : \A j \in at : j <= i

C25_Case == last.op = "truncate"

\* C25: the result of extractFirstSentenceOrTruncate(text, L) is at most
\* L + 3 long; it is the leading sentence when there is one of at most L
\* characters, else the whole collapsed text when that has at most L
\* characters, else the first L characters followed by "...", cut back to the
\* last space among them exactly when that space lies beyond 70% of L.
C25_SentenceOrTruncate ==
    C25_Case =>
        LET L == last.arg.maxLength
            cleaned == CleanedText(last.arg.text)
            sentence == LeadingSentence(cleaned)
            space == LastSpaceIn(cleaned, L)
            r == last.result.s
        IN /\ Len(r) <= L + 3
           /\ IF cleaned = "" THEN r = ""
              ELSE IF sentence # "" /\ Len(sentence) <= L THEN r = sentence
              ELSE IF Len(cleaned) <= L THEN r = cleaned
              ELSE IF 10 * space > 7 * L
                   THEN r = SubSeq(cleaned, 1, space) \o "..."
                   ELSE r = SubSeq(cleaned, 1, L) \o "..."

\* C25 witness: a text without a short sentence was cut at the default
\* length and then back to the last space, which lies in the window's last 30%
C25_Witness ==
    /\ C25_Case
    /\ last.arg.maxLength = DefaultMaxLength
    /\ last.arg.text = Str(LongText)
    /\ last.result = Str("Refactor the authentication module so that tokens are...")
    /\ 10 * LastSpaceIn(LongText, DefaultMaxLength) > 7 * DefaultMaxLength

\* C25, the other cut: the last space lies too far back, and the window is
\* kept whole
C25_HardCut ==
    /\ C25_Case
    /\ last.arg.maxLength = 20
    /\ last.arg.text = Str("Refactor the authentication module now")
    /\ LastSpaceIn(last.arg.text.s, 20) = 12
    /\ last.result = Str("Refactor the authent...")


----------------------------------------------------------------------------
(* Claims about the order of messages of equal time *)

OrderOps == {"extractTitle", "extractDescription", "extractTask"}

\* the listing of the session's message directory
OrderListing == storage.message[OrderId].entries

\* time.created of the message file at position i of the listing, 0 when missing
OrderTime(i) ==
    IF OrderListing[i].content.json.time = Undefined THEN 0
    ELSE OrderListing[i].content.json.time.created.n

\* the positions of the messages an extractor looks at: the user messages,
\* for extractCurrentTask the assistant messages
OrderCandidates(op) ==
    {i \in 1..Len(OrderListing) :
        OrderListing[i].content.json.role
            = Str(IF op = "extractTask" THEN "assistant" ELSE "user")}

\* message i comes before message j: by time (the most recent first for
\* extractCurrentTask, the earliest first otherwise), and by file name when
\* the times are equal or missing
OrderBefore(op, i, j) ==
    \/ IF op = "extractTask" THEN OrderTime(i) > OrderTime(j) ELSE OrderTime(i) < OrderTime(j)
    \/ OrderTime(i) = OrderTime(j) /\ StringLess(OrderListing[i].name, OrderListing[j].name)

\* C23 as stated: the message an extractor takes as first is the first by
\* time.created and, among messages whose time.created is equal or missing,
\* the one with the smallest file name, whatever the order of the listing.
C23_FilenameBreaksTies ==
    (last.op \in OrderOps /\ OrderCandidates(last.op) # {}) =>
        \E i \in OrderCandidates(last.op) :
            /\ \A j \in OrderCandidates(last.op) \ {i} : OrderBefore(last.op, i, j)
            /\ last.result = Str(OrderText(OrderListing[i].content.json.id.s))

\* the same with the listing order as the tie-break, which is what a stable
\* sort of the messages in listing order gives
C23_ListingBreaksTies ==
    (last.op \in OrderOps /\ OrderCandidates(last.op) # {}) =>
        \E i \in OrderCandidates(last.op) :
            /\ \A j \in OrderCandidates(last.op) \ {i} :
                 \/ IF last.op = "extractTask"
                    THEN OrderTime(i) > OrderTime(j) ELSE OrderTime(i) < OrderTime(j)
                 \/ OrderTime(i) = OrderTime(j) /\ i < j
            /\ last.result = Str(OrderText(OrderListing[i].content.json.id.s))

\* two user messages without time.created, msg_002.json listed first: the
\* title is taken from msg_002.json
C23_ListedFirstWins ==
    /\ last.op = "extractTitle"
    /\ OrderCandidates(last.op) = {1, 2}
    /\ OrderTime(1) = OrderTime(2)
    /\ OrderListing[1].name = "msg_002.json"
    /\ last.result = Str("Second request.")


----------------------------------------------------------------------------
(* Claims about calls in flight *)

\* both callers' calls of enrichSessionAgent have returned; they were for the
\* same key, both read the storage, a was the first to read it and the last
\* to return
C26_Case(a, b) ==
    /\ calls[a].pc = "done"
    /\ calls[b].pc = "done"
    /\ calls[a].key = calls[b].key
    /\ calls[a].readRank = 1
    /\ calls[b].readRank = 2
    /\ calls[b].doneRank = 1
    /\ calls[a].doneRank = 2

\* C26 as stated: when two calls for the same key overlap, the value left in
\* the cache after both returned is the one of the call that read the storage
\* last: a call that read it earlier and returns later does not replace it.
C26_NoStaleOverwrite ==
    \A a, b \in Callers :
        C26_Case(a, b) => MapGet(cache, calls[a].key).value = calls[b].value

\* the stale overwrite: the call that listed the messages before msg_001.json
\* was written returned last and left 'plan' in the cache, after the other
\* call had cached 'build', which is what the files give
C26_StaleValueLeft ==
    \E a, b \in Callers :
        /\ C26_Case(a, b)
        /\ calls[b].value = Str("build")
        /\ DetectAgent(calls[a].session.id, storage) = Str("build")
        /\ MapGet(cache, calls[a].key).value = Str("plan")


\* what a call of discoverSessions that runs alone, on an empty cache, at time
\* t returns on the tree of the concurrent callers
SoloTable ==
    [t \in Times |->
        DiscoverSessions([session |-> SessionTree1, message |-> Messages1.message,
                          part |-> Messages1.part],
                         [c |-> <<>>, ins |-> <<>>, acc |-> <<>>], t)]

\* the calls of discoverSessions that have returned
C22_Returned == {c \in Callers : calls[c].kind = "discover" /\ calls[c].pc = "done"}

\* C22: however the steps of two discoverSessions calls over one cache and
\* one unchanged tree interleave, each call returns what a call running alone
\* returns: session by session, the session a solo call builds from the same
\* file at the same clock reading, in the order of a solo call; the cache
\* never holds more than maxSize entries; and every entry holds the value its
\* extractor gives on the tree, which is what a sequential run stores.
C22_InterleavingInvisible ==
    /\ \A c \in C22_Returned :
          /\ Len(calls[c].sessions) = Len(SoloTable[0].unsorted)
          /\ \A i \in 1..Len(calls[c].sessions) :
               calls[c].sessions[i] = SoloTable[calls[c].times[i]].unsorted[i]
          /\ calls[c].result = SortByUpdated(calls[c].sessions)
          /\ (\A i \in 1..Len(calls[c].times) : calls[c].times[i] = calls[c].times[1])
                => calls[c].result = SoloTable[calls[c].times[1]].sessions
    /\ CacheSize(cache) <= maxSize
    /\ Derivable(cache, storage)

\* C22 witness: both calls have returned the solo list, and sets of both found
\* the key already stored by the other call, which had missed the cache too
C22_Witness ==
    /\ C22_Returned = Callers
    /\ \A c \in Callers : calls[c].result = SoloTable[0].sessions
    /\ \A c \in Callers : calls[c].overwrote
    /\ Len(cache) = maxSize

====
